---- MODULE Spec2Model ----
(***************************************************************************)
(* Verification model of sheriff's patrol engine:                          *)
(*   - scanAndGetReports / scanProject (internal/patrol/patrol.go): the    *)
(*     concurrent per-project scan fan-out and the fan-in of the reports;  *)
(*   - runWithRetries (internal/slack/slack.go): bounded retries with      *)
(*     backoff;                                                            *)
(*   - OpenVulnerabilityIssue / CloseVulnerabilityIssue                    *)
(*     (internal/repository/github/github.go): the issue-tracker sink;     *)
(*   - PublishAsGitlabIssues (internal/report/publisher.go): the fan-out   *)
(*     of the tracker operations, one goroutine per report;                *)
(*   - splitMessage, PublishAsGeneralSlackMessage and findSlackChannel     *)
(*     (internal/slack/slack.go): chunking, the summary thread and the     *)
(*     paged channel search;                                               *)
(*   - Patrol (internal/patrol/patrol.go): the scan followed by the sinks, *)
(*     with GetProjectList (internal/repository/github/github.go) as its   *)
(*     listing step and PatrolAction (internal/cli/patrol.go) on top;      *)
(*   - the report of one project: severity kinds                           *)
(*     (internal/scanner/vulnscanner.go) and                               *)
(*     markVulnsAsAcknowledgedInReport (internal/patrol/patrol.go);        *)
(*   - getGithubPaginatedResults (internal/repository/github/github.go);   *)
(*   - the counts of formatSummary and                                     *)
(*     PublishAsSpecificChannelSlackMessage (internal/slack/slack.go);     *)
(*   - GetProjectList with the identity of the projects                    *)
(*     (internal/repository/github/github.go);                             *)
(*   - ExtractTarGz (internal/compress);                                   *)
(*   - PostMessage (internal/slack/slack.go): the nested retries of the    *)
(*     channel search and of the post.                                     *)
(* Each part has its own specification over its own group of variables;    *)
(* the variables of the other parts stay at their idle values.             *)
(***************************************************************************)
EXTENDS Integers, Sequences, FiniteSets, TLC

\* ------------------------------------------------------------------------
\* Bounds of the model
\* ------------------------------------------------------------------------
\* largest number of projects the listing step returns
MaxProjects == 3
\* largest number of vulnerabilities the scanner finds in one project
MaxVulns == 2

VARIABLES
    \* --- scanAndGetReports ---
    mainPc,       \* position of the orchestrating goroutine
    listed,       \* TRUE once GetProjectList has returned
    projects,     \* the list returned by GetProjectList
    taskPc,       \* position of the scan goroutine of project i
    taskErr,      \* the step at which scanProject of project i failed, or NoErr
    taskReport,   \* the report scanProject of project i returned, or NoReport
    warnRead,     \* the value of warn the goroutine of project i read
    warn,         \* the named result warn, shared by all goroutines
    reportsChan,  \* the buffered channel of reports
    wg,           \* the WaitGroup counter
    reports,      \* the named result reports
    err,          \* the named result err
    rootDir,      \* TRUE while tempScanDir exists
    taskDirs,     \* the scan directories that exist under the root
    pwarn,        \* TRUE when GetProjectList returned a warning
    \* --- runWithRetries ---
    rPc,             \* position in runWithRetries
    maxAttemptsArg,  \* the argument maxAttempts as passed by the caller
    maxAttempts,     \* the local maxAttempts, after the clamp
    backoff,         \* the argument backoff (initialBackoff)
    opFails,         \* the operation fails this many times, then succeeds
    attempt,         \* the loop variable
    opLog,           \* one entry per invocation of the operation
    sleepDuration,   \* the local sleepDuration of the current iteration
    sleeps,          \* the durations passed to time.Sleep, in order
    clock,           \* the current time
    result,          \* the returned result
    rErr,            \* the returned error
    \* --- the issue-tracker sink ---
    tracker,         \* the issues of every repository, by issue number
    last,            \* the last call of the sink, with the client calls it made
    \* --- PublishAsGitlabIssues ---
    pubPc,        \* position of PublishAsGitlabIssues
    pubReports,   \* the argument reports
    pubTaskPc,    \* position of the goroutine of report i
    pubOps,       \* the tracker operations made for report i, with their outcome
    pubIssueUrl,  \* TRUE once IssueUrl of report i is set
    pubLogged,    \* the failures written to the log
    pubWg,        \* the WaitGroup counter
    \* --- splitMessage ---
    splitPc,      \* position in splitMessage
    splitArg,     \* the argument s as passed by the caller
    splitMaxLen,  \* the argument maxLen
    splitS,       \* the local s, the text not yet cut
    splitChunks,  \* the local chunks
    splitCuts,    \* one entry per iteration of the loop: the text and the cut
    \* --- PublishAsGeneralSlackMessage ---
    genPc,          \* position in PublishAsGeneralSlackMessage
    genText,        \* the text formatReportMessage builds from the reports
    genMsgOptions,  \* the local msgOptions, one option per chunk
    genIdx,         \* the index of the next option of the loop
    genTs,          \* the local ts
    genErr,         \* the named result err
    genPosts,       \* the PostMessage calls made, in order, with their outcome
    \* --- findSlackChannel ---
    conversations,  \* the channels of the workspace, in listing order
    findPc,         \* position in findSlackChannel
    findName,       \* the argument channelName of the current call
    findCursor,     \* the local nextCursor: the page to request, 0 for the empty cursor
    findLog,        \* the GetConversations calls made, in order
    findResults,    \* the result of every finished findSlackChannel call
    \* --- Patrol ---
    patrolPc,    \* position in Patrol
    patrolArgs,  \* the fields of args and of the service Patrol has read
    patrolWarn,  \* the named result warn of Patrol
    patrolErr,   \* the named result err of Patrol
    sinkLog,     \* the sinks Patrol called, in order, with their outcome
    \* --- GetProjectList ---
    locations,  \* args.Locations, each with what its listing will answer
    listPc,     \* position of the goroutine of each path in GetProjectList
    reposChan,  \* the buffered channel of GetProjectList
    groupErr,   \* the first error returned to the errgroup, 0 when none
    \* --- PatrolAction ---
    actionResult,  \* what PatrolAction returned, "pending" before it returns
    \* --- scanProject, the building of the report ---
    bldPc,      \* position in the building of the report of one project
    bldConfig,  \* the project configuration read from the fetched tree
    bldReport,  \* the report of the project
    \* --- getGithubPaginatedResults ---
    pgPc,       \* position in getGithubPaginatedResults
    pgPage,     \* opts.Page
    pgResults,  \* the named result results
    pgErr,      \* the named result err, TRUE when not nil
    pgLog,      \* the calls of the page function, in order, with their responses
    \* --- formatSummary ---
    sumPc,       \* position in the formatting of the summary
    sumReports,  \* the reports of the run
    sumCounts,   \* the count the summary shows for each severity kind
    \* --- PublishAsSpecificChannelSlackMessage ---
    spcPc,       \* position of the publishing goroutine
    spcReports,  \* the reports of the run
    spcTaskPc,   \* position of the goroutine of each configured report
    spcRead,     \* the value of warn a goroutine has read and not yet joined
    spcWarn,     \* the named result warn
    spcPosts,    \* the PostMessage calls, in order, with their outcome
    spcWg,       \* the counter of the WaitGroup
    \* --- GetProjectList, with the identity of the projects ---
    rpPc,        \* position of GetProjectList
    rpPaths,     \* the paths GetProjectList was called with
    rpTaskPc,    \* position of the goroutine of each path
    rpChan,      \* the buffered channel reposChan, with the repositories sent
    rpErr,       \* the first error returned to the errgroup, 0 when none
    rpProjects,  \* the named result projects
    \* --- ExtractTarGz ---
    xtPc,     \* position of ExtractTarGz
    xtFs,     \* the locations of the file system that exist, as absolute paths
    xtCount,  \* the number of headers read from the archive
    xtLast,   \* the last header read, with what was done for it
    \* --- PostMessage of the chat service ---
    pmPc,           \* position of PostMessage
    pmWorkspace,    \* the channels of the workspace, in the order of the listing
    pmName,         \* the argument channelName
    pmMaxAttempts,  \* s.maxAttempts
    pmAttempt,      \* the attempt of the outer runWithRetries, the one around findSlackChannel
    pmCursor,       \* nextCursor of the running findSlackChannel
    pmLog,          \* the GetConversations calls, in order
    pmPosts,        \* the client.PostMessage calls, in order
    pmErr           \* the error PostMessage returns

scanVars == <<mainPc, listed, projects, taskPc, taskErr, taskReport, warnRead,
              warn, reportsChan, wg, reports, err, rootDir, taskDirs, pwarn>>

retryVars == <<rPc, maxAttemptsArg, maxAttempts, backoff, opFails, attempt,
               opLog, sleepDuration, sleeps, clock, result, rErr>>

issueVars == <<tracker, last>>

publishVars == <<pubPc, pubReports, pubTaskPc, pubOps, pubIssueUrl, pubLogged,
                 pubWg>>

splitVars == <<splitPc, splitArg, splitMaxLen, splitS, splitChunks,
               splitCuts>>

generalVars == <<genPc, genText, genMsgOptions, genIdx, genTs, genErr,
                 genPosts>>

findVars == <<conversations, findPc, findName, findCursor, findLog,
              findResults>>

patrolVars == <<patrolPc, patrolArgs, patrolWarn, patrolErr, sinkLog>>

listVars == <<locations, listPc, reposChan, groupErr>>

actionVars == <<actionResult>>

buildVars == <<bldPc, bldConfig, bldReport>>

pageVars == <<pgPc, pgPage, pgResults, pgErr, pgLog>>

summaryVars == <<sumPc, sumReports, sumCounts>>

specificVars == <<spcPc, spcReports, spcTaskPc, spcRead, spcWarn, spcPosts,
                  spcWg>>

reposVars == <<rpPc, rpPaths, rpTaskPc, rpChan, rpErr, rpProjects>>

extractVars == <<xtPc, xtFs, xtCount, xtLast>>

postVars == <<pmPc, pmWorkspace, pmName, pmMaxAttempts, pmAttempt, pmCursor,
              pmLog, pmPosts, pmErr>>

vars == <<scanVars, retryVars, issueVars, publishVars, splitVars, generalVars,
          findVars, patrolVars, listVars, actionVars, buildVars, pageVars,
          summaryVars, specificVars, reposVars, extractVars, postVars>>

\* what the actions of one part leave alone
otherThanScan == <<retryVars, issueVars, publishVars, splitVars, generalVars,
                   findVars, patrolVars, listVars, actionVars, buildVars,
                   pageVars, summaryVars, specificVars, reposVars,
                   extractVars, postVars>>

otherThanRetry == <<scanVars, issueVars, publishVars, splitVars, generalVars,
                    findVars, patrolVars, listVars, actionVars, buildVars,
                    pageVars, summaryVars, specificVars, reposVars,
                    extractVars, postVars>>

otherThanIssue == <<scanVars, retryVars, publishVars, splitVars, generalVars,
                    findVars, patrolVars, listVars, actionVars, buildVars,
                    pageVars, summaryVars, specificVars, reposVars,
                    extractVars, postVars>>

otherThanPublish == <<scanVars, retryVars, issueVars, splitVars, generalVars,
                      findVars, patrolVars, listVars, actionVars, buildVars,
                      pageVars, summaryVars, specificVars, reposVars,
                      extractVars, postVars>>

otherThanSplit == <<scanVars, retryVars, issueVars, publishVars, generalVars,
                    findVars, patrolVars, listVars, actionVars, buildVars,
                    pageVars, summaryVars, specificVars, reposVars,
                    extractVars, postVars>>

otherThanGeneral == <<scanVars, retryVars, issueVars, publishVars, splitVars,
                      findVars, patrolVars, listVars, actionVars, buildVars,
                      pageVars, summaryVars, specificVars, reposVars,
                      extractVars, postVars>>

otherThanFind == <<scanVars, retryVars, issueVars, publishVars, splitVars,
                   generalVars, patrolVars, listVars, actionVars, buildVars,
                   pageVars, summaryVars, specificVars, reposVars,
                   extractVars, postVars>>

otherThanPatrol == <<scanVars, retryVars, issueVars, publishVars, splitVars,
                     generalVars, findVars, listVars, actionVars, buildVars,
                     pageVars, summaryVars, specificVars, reposVars,
                     extractVars, postVars>>

otherThanList == <<scanVars, retryVars, issueVars, publishVars, splitVars,
                   generalVars, findVars, patrolVars, actionVars, buildVars,
                   pageVars, summaryVars, specificVars, reposVars,
                   extractVars, postVars>>

otherThanScanAndList == <<retryVars, issueVars, publishVars, splitVars,
                          generalVars, findVars, patrolVars, actionVars,
                          buildVars, pageVars, summaryVars, specificVars,
                          reposVars, extractVars, postVars>>

otherThanAction == <<scanVars, retryVars, issueVars, publishVars, splitVars,
                     generalVars, findVars, patrolVars, listVars, buildVars,
                     pageVars, summaryVars, specificVars, reposVars,
                     extractVars, postVars>>

otherThanBuild == <<scanVars, retryVars, issueVars, publishVars, splitVars,
                    generalVars, findVars, patrolVars, listVars, actionVars,
                    pageVars, summaryVars, specificVars, reposVars,
                    extractVars, postVars>>

otherThanPage == <<scanVars, retryVars, issueVars, publishVars, splitVars,
                   generalVars, findVars, patrolVars, listVars, actionVars,
                   buildVars, summaryVars, specificVars, reposVars,
                   extractVars, postVars>>

otherThanSummary == <<scanVars, retryVars, issueVars, publishVars, splitVars,
                      generalVars, findVars, patrolVars, listVars, actionVars,
                      buildVars, pageVars, specificVars, reposVars,
                      extractVars, postVars>>

otherThanSpecific == <<scanVars, retryVars, issueVars, publishVars, splitVars,
                       generalVars, findVars, patrolVars, listVars,
                       actionVars, buildVars, pageVars, summaryVars,
                       reposVars, extractVars, postVars>>

otherThanRepos == <<scanVars, retryVars, issueVars, publishVars, splitVars,
                    generalVars, findVars, patrolVars, listVars, actionVars,
                    buildVars, pageVars, summaryVars, specificVars,
                    extractVars, postVars>>

otherThanExtract == <<scanVars, retryVars, issueVars, publishVars, splitVars,
                      generalVars, findVars, patrolVars, listVars, actionVars,
                      buildVars, pageVars, summaryVars, specificVars,
                      reposVars, postVars>>

otherThanPost == <<scanVars, retryVars, issueVars, publishVars, splitVars,
                   generalVars, findVars, patrolVars, listVars, actionVars,
                   buildVars, pageVars, summaryVars, specificVars, reposVars,
                   extractVars>>

\* ------------------------------------------------------------------------
\* Errors.  An error value is a sequence of the errors joined into it, the
\* most recently joined first; the nil error is the empty sequence.
\* ------------------------------------------------------------------------
NilErr == <<>>

\* errors.Join(e, w) for a non-nil e: the nil operand is dropped
Join(e, w) == <<e>> \o w

\* the error of the listing step
ListErr == 0

NoErr == "nil"

\* ------------------------------------------------------------------------
\* Reports
\* ------------------------------------------------------------------------
Project(i) == [ID |-> i]

NoProject == [ID |-> 0]

NoReport == [Project |-> NoProject, Error |-> FALSE, IsVulnerable |-> FALSE,
             Vulnerabilities |-> <<>>]

\* the placeholder report of a failed scan, Error=true and zero values
FailedReportNoFlag(project) ==
    [Project |-> project, Error |-> FALSE, IsVulnerable |-> FALSE,
     Vulnerabilities |-> <<>>]

FailedReport(project) ==
    [Project |-> project, Error |-> TRUE, IsVulnerable |-> FALSE,
     Vulnerabilities |-> <<>>]

\* the scanner's report of a project in which it found n vulnerabilities
GenerateReport(project, n) ==
    [Project |-> project, Error |-> FALSE, IsVulnerable |-> n > 0,
     Vulnerabilities |-> [v \in 1..n |-> v]]

\* the error scanAndGetReports joins into warn for a failed project
ProjectErr(project) == project.ID

\* ------------------------------------------------------------------------
\* slices.SortFunc with the comparison of scanAndGetReports.  For the short
\* slices of the model pdqsort is its insertion sort.
\* ------------------------------------------------------------------------
Compare(x, y) == IF x < y THEN -1 ELSE IF x > y THEN 1 ELSE 0

CmpReportsAscending(a, b) == Compare(Len(a.Vulnerabilities), Len(b.Vulnerabilities))

CmpReports(a, b) == Compare(Len(b.Vulnerabilities), Len(a.Vulnerabilities))

RECURSIVE InsertReport(_, _)
InsertReport(s, r) ==
    IF s # <<>> /\ CmpReports(r, s[Len(s)]) < 0
    THEN Append(InsertReport(SubSeq(s, 1, Len(s) - 1), r), s[Len(s)])
    ELSE Append(s, r)

RECURSIVE SortFunc(_)
SortFunc(s) ==
    IF s = <<>> THEN <<>>
    ELSE InsertReport(SortFunc(SubSeq(s, 1, Len(s) - 1)), s[Len(s)])

\* ------------------------------------------------------------------------
\* scanAndGetReports: the orchestrating goroutine
\* ------------------------------------------------------------------------
Tasks == 1..MaxProjects

ScanInit ==
    /\ mainPc = "start"
    /\ listed = FALSE
    /\ projects = <<>>
    /\ taskPc = [t \in Tasks |-> "none"]
    /\ taskErr = [t \in Tasks |-> NoErr]
    /\ taskReport = [t \in Tasks |-> NoReport]
    /\ warnRead = [t \in Tasks |-> NilErr]
    /\ warn = NilErr
    /\ reportsChan = <<>>
    /\ wg = 0
    /\ reports = <<>>
    /\ err = NoErr
    /\ rootDir = FALSE
    /\ taskDirs = {}
    /\ pwarn = FALSE

\* os.MkdirAll(tempScanDir) and its error return
MkdirAll ==
    /\ mainPc = "start"
    /\ \/ /\ rootDir' = TRUE
          /\ mainPc' = "list"
          /\ UNCHANGED err
       \/ /\ err' = "could not create temporary directory"
          /\ mainPc' = "returned"
          /\ UNCHANGED rootDir
    /\ UNCHANGED <<listed, projects, taskPc, taskErr, taskReport, warnRead,
                   warn, reportsChan, wg, reports, taskDirs, pwarn>>
    /\ UNCHANGED otherThanScan

\* GetProjectList has returned n projects, with a warning when w: the join
\* of the wrapped warning and make(chan, len(projects))
ProjectsListed(n, w) ==
    /\ projects' = [i \in 1..n |-> Project(i)]
    /\ pwarn' = w
    /\ warn' = IF w THEN Join(ListErr, warn) ELSE warn
    /\ listed' = TRUE
    /\ reportsChan' = <<>>
    /\ mainPc' = "spawn"
    /\ UNCHANGED <<taskPc, taskErr, taskReport, warnRead, wg, reports, err,
                   rootDir, taskDirs>>

\* the call of GetProjectList, taken in one step: the listing returns at most
\* max projects
GetProjectListUpTo(max) ==
    /\ mainPc = "list"
    /\ \E n \in 0..max, w \in BOOLEAN : ProjectsListed(n, w)
    /\ UNCHANGED otherThanScan

GetProjectList == GetProjectListUpTo(MaxProjects)

\* one iteration of the loop over projects: wg.Add(1) and the go statement
Spawn ==
    /\ mainPc = "spawn"
    /\ \E i \in 1..Len(projects) :
          /\ taskPc[i] = "none"
          /\ \A j \in 1..(i - 1) : taskPc[j] # "none"
          /\ wg' = wg + 1
          /\ taskPc' = [taskPc EXCEPT ![i] = "created"]
    /\ UNCHANGED <<mainPc, listed, projects, taskErr, taskReport, warnRead,
                   warn, reportsChan, reports, err, rootDir, taskDirs, pwarn>>
    /\ UNCHANGED otherThanScan

\* the loop is over; wg.Wait() returns when the counter is zero
Wait ==
    /\ mainPc = "spawn"
    /\ \A i \in 1..Len(projects) : taskPc[i] # "none"
    /\ wg = 0
    /\ mainPc' = "collect"
    /\ UNCHANGED <<listed, projects, taskPc, taskErr, taskReport, warnRead,
                   warn, reportsChan, wg, reports, err, rootDir, taskDirs, pwarn>>
    /\ UNCHANGED otherThanScan

\* the collection and the return without the deferred os.RemoveAll
CollectWithoutRemoveAll ==
    /\ mainPc = "collect"
    /\ reports' = SortFunc(reportsChan)
    /\ reportsChan' = <<>>
    /\ mainPc' = "returned"
    /\ UNCHANGED <<listed, projects, taskPc, taskErr, taskReport, warnRead,
                   warn, wg, err, rootDir, taskDirs, pwarn>>
    /\ UNCHANGED otherThanScan

\* close(reportsChan), the collecting loop, the sort, the return and the
\* deferred os.RemoveAll(tempScanDir)
Collect ==
    /\ mainPc = "collect"
    /\ reports' = SortFunc(reportsChan)
    /\ reportsChan' = <<>>
    /\ rootDir' = FALSE
    /\ mainPc' = "returned"
    /\ UNCHANGED <<listed, projects, taskPc, taskErr, taskReport, warnRead,
                   warn, wg, err, taskDirs, pwarn>>
    /\ UNCHANGED otherThanScan

\* ------------------------------------------------------------------------
\* The scan goroutine of project t: scanProject and the send of its report
\* ------------------------------------------------------------------------
\* project.Name; the projects of a run may all have the same name
Name(project) == "sheriff"

\* the directory os.MkdirTemp(tempScanDir, name-) creates for task t: the
\* prefix and a suffix that no existing directory has, here the task's own
\* number
DirNameNoSuffix(t) == [prefix |-> Name(projects[t]), suffix |-> 0]

DirName(t) == [prefix |-> Name(projects[t]), suffix |-> t]

\* os.MkdirTemp(tempScanDir, name-)
MkdirTemp(t) ==
    /\ taskPc[t] = "created"
    /\ \/ /\ taskDirs' = taskDirs \cup {DirName(t)}
          /\ taskPc' = [taskPc EXCEPT ![t] = "fetching"]
          /\ UNCHANGED taskErr
       \/ /\ taskErr' = [taskErr EXCEPT ![t] = "mkdir"]
          /\ taskPc' = [taskPc EXCEPT ![t] = "failed"]
          /\ UNCHANGED taskDirs
    /\ UNCHANGED <<mainPc, listed, projects, taskReport, warnRead, warn,
                   reportsChan, wg, reports, err, rootDir, pwarn>>
    /\ UNCHANGED otherThanScan

\* gitService.Clone, with scanProject going on to the scanner after a failure
CloneIgnoringError(t) ==
    /\ taskPc[t] = "fetching"
    /\ \/ /\ taskPc' = [taskPc EXCEPT ![t] = "scanning"]
          /\ UNCHANGED <<taskErr, taskDirs>>
       \/ /\ taskErr' = [taskErr EXCEPT ![t] = "clone"]
          /\ taskPc' = [taskPc EXCEPT ![t] = "scanning"]
          /\ UNCHANGED taskDirs
    /\ UNCHANGED <<mainPc, listed, projects, taskReport, warnRead, warn,
                   reportsChan, wg, reports, err, rootDir, pwarn>>
    /\ UNCHANGED otherThanScan

\* gitService.Clone; on failure the return and the deferred RemoveAll(dir)
Clone(t) ==
    /\ taskPc[t] = "fetching"
    /\ \/ /\ taskPc' = [taskPc EXCEPT ![t] = "scanning"]
          /\ UNCHANGED <<taskErr, taskDirs>>
       \/ /\ taskErr' = [taskErr EXCEPT ![t] = "clone"]
          /\ taskDirs' = taskDirs \ {DirName(t)}
          /\ taskPc' = [taskPc EXCEPT ![t] = "failed"]
    /\ UNCHANGED <<mainPc, listed, projects, taskReport, warnRead, warn,
                   reportsChan, wg, reports, err, rootDir, pwarn>>
    /\ UNCHANGED otherThanScan

\* osvService.Scan, GenerateReport, the return and the deferred RemoveAll(dir)
Scan(t) ==
    /\ taskPc[t] = "scanning"
    /\ \/ /\ \E n \in 0..MaxVulns :
                taskReport' = [taskReport EXCEPT
                                 ![t] = GenerateReport(projects[t], n)]
          /\ taskPc' = [taskPc EXCEPT ![t] = "built"]
          /\ UNCHANGED taskErr
       \/ /\ taskErr' = [taskErr EXCEPT ![t] = "scan"]
          /\ taskPc' = [taskPc EXCEPT ![t] = "failed"]
          /\ UNCHANGED taskReport
    /\ taskDirs' = taskDirs \ {DirName(t)}
    /\ UNCHANGED <<mainPc, listed, projects, warnRead, warn, reportsChan, wg,
                   reports, err, rootDir, pwarn>>
    /\ UNCHANGED otherThanScan

\* the capacity of make(chan scanner.Report, len(projects)): a send blocks
\* while the channel holds that many reports
ChanCapOneShort(ps) == Len(ps) - 1

ChanCap(ps) == Len(ps)

\* warn = errors.Join(err, warn), first half: the unsynchronised read of warn
ReadWarn(t) ==
    /\ taskPc[t] = "failed"
    /\ warnRead' = [warnRead EXCEPT ![t] = warn]
    /\ taskPc' = [taskPc EXCEPT ![t] = "joining"]
    /\ UNCHANGED <<mainPc, listed, projects, taskErr, taskReport, warn,
                   reportsChan, wg, reports, err, rootDir, taskDirs, pwarn>>
    /\ UNCHANGED otherThanScan

\* warn = errors.Join(err, warn), second half: the unsynchronised write
WriteWarn(t) ==
    /\ taskPc[t] = "joining"
    /\ warn' = Join(ProjectErr(projects[t]), warnRead[t])
    /\ warnRead' = [warnRead EXCEPT ![t] = NilErr]
    /\ taskPc' = [taskPc EXCEPT ![t] = "joined"]
    /\ UNCHANGED <<mainPc, listed, projects, taskErr, taskReport, reportsChan,
                   wg, reports, err, rootDir, taskDirs, pwarn>>
    /\ UNCHANGED otherThanScan

\* reportsChan <- scanner.Report{Project: project, Error: true}; wg.Done()
SendFailed(t) ==
    /\ taskPc[t] = "joined"
    /\ Len(reportsChan) < ChanCap(projects)
    /\ reportsChan' = Append(reportsChan, FailedReport(projects[t]))
    /\ wg' = wg - 1
    /\ taskPc' = [taskPc EXCEPT ![t] = "done"]
    /\ UNCHANGED <<mainPc, listed, projects, taskErr, taskReport, warnRead,
                   warn, reports, err, rootDir, taskDirs, pwarn>>
    /\ UNCHANGED otherThanScan

\* reportsChan <- *report; wg.Done()
SendReport(t) ==
    /\ taskPc[t] = "built"
    /\ Len(reportsChan) < ChanCap(projects)
    /\ reportsChan' = Append(reportsChan, taskReport[t])
    /\ wg' = wg - 1
    /\ taskPc' = [taskPc EXCEPT ![t] = "done"]
    /\ UNCHANGED <<mainPc, listed, projects, taskErr, taskReport, warnRead,
                   warn, reports, err, rootDir, taskDirs, pwarn>>
    /\ UNCHANGED otherThanScan

ScanTask(t) ==
    \/ MkdirTemp(t)
    \/ Clone(t)
    \/ Scan(t)
    \/ ReadWarn(t)
    \/ WriteWarn(t)
    \/ SendFailed(t)
    \/ SendReport(t)

ScanNext ==
    \/ MkdirAll
    \/ GetProjectList
    \/ Spawn
    \/ Wait
    \/ Collect
    \/ \E t \in Tasks : ScanTask(t)

\* ------------------------------------------------------------------------
\* runWithRetries
\* ------------------------------------------------------------------------
\* largest maxAttempts a caller passes
MaxAttemptsArg == 4
\* largest initial backoff a caller passes, in time units
MaxBackoff == 2
\* largest RetryAfter a rate-limit error carries, in time units
MaxRetryAfter == 3
\* largest time by which time.Sleep oversleeps, in time units
MaxOversleep == 1

\* the errors an invocation of the operation returns: a plain error, or a
\* slack.RateLimitedError with its RetryAfter
OpErrors ==
    {[kind |-> "error", RetryAfter |-> 0]} \cup
    {[kind |-> "ratelimit", RetryAfter |-> d] : d \in 0..MaxRetryAfter}

OpSuccess == [kind |-> "ok", RetryAfter |-> 0]

\* the nil error, and fmt.Errorf("operation failed after %d attempts: %w");
\* wraps is the number of the invocation whose error is wrapped
NilRetryErr == [attempts |-> 0, wraps |-> 0]

RetryErr(n, call) == [attempts |-> n, wraps |-> call]

RECURSIVE Pow2(_)
Pow2(n) == IF n <= 0 THEN 1 ELSE 2 * Pow2(n - 1)

\* if maxAttempts <= 0 { maxAttempts = 1 }
ClampAttemptsNegativeOnly(m) == IF m < 0 THEN 1 ELSE m

ClampAttempts(m) == IF m <= 0 THEN 1 ELSE m

\* if attempt == maxAttempts { break }
IsFinalAttemptEarly(a, m) == a + 1 >= m

IsFinalAttempt(a, m) == a = m

\* backoff * time.Duration(1<<(attempt-1))
ExponentialBackoffFromZero(b, a) == b * Pow2(a)

ExponentialBackoff(b, a) == b * Pow2(a - 1)

\* the sleep duration chosen after the failure e of attempt a
SleepDurationNoOverride(e, b, a) == ExponentialBackoff(b, a)

SleepDuration(e, b, a) ==
    IF e.kind = "ratelimit"
    THEN IF e.RetryAfter > 0 THEN e.RetryAfter ELSE ExponentialBackoff(b, a)
    ELSE ExponentialBackoff(b, a)

RetryIdle ==
    /\ rPc = "idle"
    /\ maxAttemptsArg = 0
    /\ maxAttempts = 0
    /\ backoff = 0
    /\ opFails = 0
    /\ attempt = 0
    /\ opLog = <<>>
    /\ sleepDuration = 0
    /\ sleeps = <<>>
    /\ clock = 0
    /\ result = ""
    /\ rErr = NilRetryErr

\* the call runWithRetries(operation, maxAttempts, backoff)
RetryInit ==
    /\ rPc = "start"
    /\ maxAttemptsArg \in -1..MaxAttemptsArg
    /\ maxAttempts = maxAttemptsArg
    /\ backoff \in 1..MaxBackoff
    /\ opFails \in 0..MaxAttemptsArg
    /\ attempt = 0
    /\ opLog = <<>>
    /\ sleepDuration = 0
    /\ sleeps = <<>>
    /\ clock = 0
    /\ result = ""
    /\ rErr = NilRetryErr

\* the clamp of maxAttempts and the initialisation of the loop
RetryStart ==
    /\ rPc = "start"
    /\ maxAttempts' = ClampAttempts(maxAttemptsArg)
    /\ attempt' = 1
    /\ rPc' = "loop"
    /\ UNCHANGED <<maxAttemptsArg, backoff, opFails, opLog, sleepDuration,
                   sleeps, clock, result, rErr>>
    /\ UNCHANGED otherThanRetry

\* the loop test and one iteration up to the sleep: the invocation of the
\* operation, the return on success, the break on the final attempt and the
\* choice of the sleep duration; after the loop, the wrapped error
RetryAttempt ==
    /\ rPc = "loop"
    /\ IF attempt <= maxAttempts
       THEN \E e \in (IF Len(opLog) < opFails THEN OpErrors ELSE {OpSuccess}) :
               /\ opLog' = Append(opLog, [kind |-> e.kind,
                                          RetryAfter |-> e.RetryAfter,
                                          at |-> clock])
               /\ IF e.kind = "ok"
                  THEN /\ result' = "value"
                       /\ rErr' = NilRetryErr
                       /\ rPc' = "done"
                       /\ UNCHANGED sleepDuration
                  ELSE IF IsFinalAttempt(attempt, maxAttempts)
                  THEN /\ result' = ""
                       /\ rErr' = RetryErr(maxAttempts, Len(opLog) + 1)
                       /\ rPc' = "done"
                       /\ UNCHANGED sleepDuration
                  ELSE /\ sleepDuration' = SleepDuration(e, backoff, attempt)
                       /\ rPc' = "sleep"
                       /\ UNCHANGED <<result, rErr>>
       ELSE /\ rErr' = RetryErr(maxAttempts, Len(opLog))
            /\ rPc' = "done"
            /\ UNCHANGED <<opLog, sleepDuration, result>>
    /\ UNCHANGED <<maxAttemptsArg, maxAttempts, backoff, opFails, attempt,
                   sleeps, clock>>
    /\ UNCHANGED otherThanRetry

\* time.Sleep(sleepDuration) and attempt++
RetrySleep ==
    /\ rPc = "sleep"
    /\ sleeps' = Append(sleeps, sleepDuration)
    /\ \E over \in 0..MaxOversleep : clock' = clock + sleepDuration + over
    /\ attempt' = attempt + 1
    /\ rPc' = "loop"
    /\ UNCHANGED <<maxAttemptsArg, maxAttempts, backoff, opFails, opLog,
                   sleepDuration, result, rErr>>
    /\ UNCHANGED otherThanRetry

RetryNext ==
    \/ RetryStart
    \/ RetryAttempt
    \/ RetrySleep

\* ------------------------------------------------------------------------
\* The issue-tracker sink: OpenVulnerabilityIssue, CloseVulnerabilityIssue
\* ------------------------------------------------------------------------
\* largest number of issues a repository holds before the sink is used
MaxIssues == 2
\* page size of the issue listing (the code asks for 100 per page; the model
\* pages the same way over shorter listings)
PerPage == 1
\* the last page of a listing whose request may fail
MaxFailPage == 2

\* repository.VulnerabilityIssueTitle
VulnerabilityIssueTitle == "vulnerability report"

\* the projects the sink is called for; the first has the name of its owner
Projects ==
    {[GroupOrOwner |-> "acme", Name |-> "acme"],
     [GroupOrOwner |-> "acme", Name |-> "sheriff"]}

\* the repositories of the tracker, as <<owner, repo>>
Repos == {<<p.GroupOrOwner, p.Name>> : p \in Projects}

\* the formatted report passed as the issue body
ReportBodies == {"report"}

\* the issues a repository holds before the sink is used: the tracked issue,
\* open or closed, and issues with another title
IssueValues ==
    {[Title |-> VulnerabilityIssueTitle, State |-> "open", Body |-> "old"],
     [Title |-> VulnerabilityIssueTitle, State |-> "closed", Body |-> "old"],
     [Title |-> "other", State |-> "open", Body |-> "old"]}

IssueLists == UNION {[1..n -> IssueValues] : n \in 0..MaxIssues}

NoIssue == [Number |-> 0, Title |-> "", State |-> "", Body |-> ""]

\* an IssueRequest field that is not set
NotSet == "<nil>"

Min(a, b) == IF a < b THEN a ELSE b

\* client.ListRepositoryIssues: one page of the issues of owner/repo
ListRepositoryIssues(trk, owner, repo, page) ==
    LET all == trk[<<owner, repo>>]
        first == (page - 1) * PerPage + 1
        end == Min(page * PerPage, Len(all))
    IN  [issues |-> [k \in 1..(end - first + 1) |->
                        [Number |-> first + k - 1,
                         Title |-> all[first + k - 1].Title,
                         State |-> all[first + k - 1].State,
                         Body |-> all[first + k - 1].Body]],
         NextPage |-> IF Len(all) > page * PerPage THEN page + 1 ELSE 0]

\* client.CreateIssue: a new open issue with the next number
CreateIssue(trk, owner, repo, req) ==
    LET created == [Title |-> req.Title, State |-> "open", Body |-> req.Body]
    IN  [trk |-> [trk EXCEPT ![<<owner, repo>>] = Append(@, created)],
         issue |-> [Number |-> Len(trk[<<owner, repo>>]) + 1,
                    Title |-> created.Title, State |-> created.State,
                    Body |-> created.Body]]

\* the issue number exists in owner/repo
IssueExists(trk, owner, repo, number) ==
    /\ <<owner, repo>> \in DOMAIN trk
    /\ number \in 1..Len(trk[<<owner, repo>>])

\* client.UpdateIssue on an existing issue: the fields set in the request
\* replace those of the issue; with applyState = FALSE the tracker does not
\* apply the requested state
UpdateIssue(trk, owner, repo, number, req, applyState) ==
    LET old == trk[<<owner, repo>>][number]
        edited == [Title |-> old.Title,
                   State |-> IF req.State # NotSet /\ applyState
                             THEN req.State ELSE old.State,
                   Body |-> IF req.Body # NotSet THEN req.Body ELSE old.Body]
    IN  [trk |-> [trk EXCEPT ![<<owner, repo>>][number] = edited],
         issue |-> [Number |-> number, Title |-> edited.Title,
                    State |-> edited.State, Body |-> edited.Body]]

\* issue != nil && issue.GetTitle() == vulnTitle
IsVulnIssueAnyTitle(issue) == TRUE

IsVulnIssue(issue) == issue.Title = VulnerabilityIssueTitle

\* getVulnerabilityIssue from page on; the listing of page failPage fails
RECURSIVE getVulnerabilityIssueFrom(_, _, _, _, _)
getVulnerabilityIssueFrom(trk, owner, repo, page, failPage) ==
    IF page = failPage
    THEN [err |-> TRUE, issue |-> NoIssue]
    ELSE LET resp == ListRepositoryIssues(trk, owner, repo, page)
             found == {k \in 1..Len(resp.issues) : IsVulnIssue(resp.issues[k])}
         IN  IF found # {}
             THEN [err |-> FALSE,
                   issue |-> resp.issues[CHOOSE k \in found :
                                            \A j \in found : k <= j]]
             ELSE IF resp.NextPage = 0
             THEN [err |-> FALSE, issue |-> NoIssue]
             ELSE getVulnerabilityIssueFrom(trk, owner, repo, resp.NextPage,
                                            failPage)

\* getVulnerabilityIssue: the first issue with the title, over all pages
getVulnerabilityIssue(trk, owner, repo, failPage) ==
    getVulnerabilityIssueFrom(trk, owner, repo, 1, failPage)

\* edited.GetState() != "open"
ReopenFailedNever(edited) == FALSE

ReopenFailed(edited) == edited.State # "open"

\* issue.GetState() == "closed"
AlreadyClosedNever(issue) == FALSE

AlreadyClosed(issue) == issue.State = "closed"

\* the repository CloseVulnerabilityIssue sends its update to
CloseUpdateRepo(project) == project.GroupOrOwner

NoLast == [op |-> "none", project |-> [GroupOrOwner |-> "", Name |-> ""],
           body |-> "", pre |-> [r \in Repos |-> <<>>], lookupErr |-> FALSE,
           creates |-> <<>>, updates |-> <<>>, err |-> FALSE,
           edited |-> NoIssue, issue |-> NoIssue]

\* what the tracker does during one call of the sink: nothing unusual, the
\* listing of page failPage fails, the create or update call fails, or the
\* update does not apply the requested state
Faults ==
    {[failPage |-> 0, callFails |-> FALSE, applyState |-> TRUE],
     [failPage |-> 0, callFails |-> TRUE, applyState |-> TRUE],
     [failPage |-> 0, callFails |-> FALSE, applyState |-> FALSE]} \cup
    {[failPage |-> p, callFails |-> FALSE, applyState |-> TRUE] :
        p \in 1..MaxFailPage}

IssueIdle ==
    /\ tracker = [r \in Repos |-> <<>>]
    /\ last = NoLast

IssueInit ==
    /\ tracker \in [Repos -> IssueLists]
    /\ last = NoLast

\* the trackers in which no project has an issue with the well-known title
FreshIssueLists ==
    {l \in IssueLists : \A k \in 1..Len(l) : ~IsVulnIssue(l[k])}

FreshIssueInit ==
    /\ tracker \in [Repos -> FreshIssueLists]
    /\ last = NoLast

\* OpenVulnerabilityIssue(project, report)
OpenVulnerabilityIssue ==
    /\ \E project \in Projects, report \in ReportBodies, fault \in Faults :
           LET failPage == fault.failPage
               callFails == fault.callFails
               applyState == fault.applyState
               owner == project.GroupOrOwner
               repo == project.Name
               ghIssue == getVulnerabilityIssue(tracker, owner, repo, failPage)
               base == [NoLast EXCEPT !.op = "open", !.project = project,
                                      !.body = report, !.pre = tracker]
               newIssue == [Title |-> VulnerabilityIssueTitle, Body |-> report]
               createCall == [owner |-> owner, repo |-> repo, number |-> 0,
                              title |-> newIssue.Title, body |-> newIssue.Body,
                              state |-> NotSet]
               updatedIssue == [Body |-> report, State |-> "open"]
               updateCall == [owner |-> owner, repo |-> repo,
                              number |-> ghIssue.issue.Number, title |-> NotSet,
                              body |-> updatedIssue.Body,
                              state |-> updatedIssue.State]
           IN  IF ghIssue.err
               THEN /\ last' = [base EXCEPT !.lookupErr = TRUE, !.err = TRUE]
                    /\ UNCHANGED tracker
               ELSE IF ghIssue.issue = NoIssue
               THEN IF callFails
                    THEN /\ last' = [base EXCEPT !.creates = <<createCall>>,
                                                 !.err = TRUE]
                         /\ UNCHANGED tracker
                    ELSE LET created == CreateIssue(tracker, owner, repo, newIssue)
                         IN  /\ tracker' = created.trk
                             /\ last' = [base EXCEPT !.creates = <<createCall>>,
                                                     !.issue = created.issue]
               ELSE IF callFails
                       \/ ~IssueExists(tracker, owner, repo, ghIssue.issue.Number)
               THEN /\ last' = [base EXCEPT !.updates = <<updateCall>>,
                                            !.err = TRUE]
                    /\ UNCHANGED tracker
               ELSE LET edited == UpdateIssue(tracker, owner, repo,
                                              ghIssue.issue.Number, updatedIssue,
                                              applyState)
                    IN  /\ tracker' = edited.trk
                        /\ last' = IF ReopenFailed(edited.issue)
                                   THEN [base EXCEPT !.updates = <<updateCall>>,
                                                     !.edited = edited.issue,
                                                     !.err = TRUE]
                                   ELSE [base EXCEPT !.updates = <<updateCall>>,
                                                     !.edited = edited.issue,
                                                     !.issue = edited.issue]
    /\ UNCHANGED otherThanIssue

\* CloseVulnerabilityIssue(project)
CloseVulnerabilityIssue ==
    /\ \E project \in Projects, fault \in Faults :
           LET failPage == fault.failPage
               callFails == fault.callFails
               applyState == fault.applyState
               owner == project.GroupOrOwner
               repo == project.Name
               issue == getVulnerabilityIssue(tracker, owner, repo, failPage)
               base == [NoLast EXCEPT !.op = "close", !.project = project,
                                      !.pre = tracker]
               request == [Body |-> NotSet, State |-> "closed"]
               updateCall == [owner |-> project.GroupOrOwner,
                              repo |-> CloseUpdateRepo(project),
                              number |-> issue.issue.Number, title |-> NotSet,
                              body |-> request.Body, state |-> request.State]
           IN  IF issue.err
               THEN /\ last' = [base EXCEPT !.lookupErr = TRUE, !.err = TRUE]
                    /\ UNCHANGED tracker
               ELSE IF issue.issue = NoIssue \/ AlreadyClosed(issue.issue)
               THEN /\ last' = base
                    /\ UNCHANGED tracker
               ELSE IF callFails
                       \/ ~IssueExists(tracker, updateCall.owner, updateCall.repo,
                                       updateCall.number)
               THEN /\ last' = [base EXCEPT !.updates = <<updateCall>>,
                                            !.err = TRUE]
                    /\ UNCHANGED tracker
               ELSE LET edited == UpdateIssue(tracker, updateCall.owner,
                                              updateCall.repo, updateCall.number,
                                              request, applyState)
                    IN  /\ tracker' = edited.trk
                        /\ last' = [base EXCEPT !.updates = <<updateCall>>,
                                                !.edited = edited.issue]
    /\ UNCHANGED otherThanIssue

IssueNext ==
    \/ OpenVulnerabilityIssue
    \/ CloseVulnerabilityIssue

\* ------------------------------------------------------------------------
\* PublishAsGitlabIssues: one goroutine per report, one tracker operation each
\* ------------------------------------------------------------------------
\* the reports of project i: the placeholder of a failed scan, or a scanned one
ReportsFor(i) ==
    {FailedReport(Project(i))} \cup
    {GenerateReport(Project(i), n) : n \in 0..MaxVulns}

ReportLists ==
    UNION {{s \in [1..n -> UNION {ReportsFor(i) : i \in 1..n}] :
               \A i \in 1..n : s[i] \in ReportsFor(i)} : n \in 0..MaxProjects}

\* if r.IsVulnerable { s.OpenVulnerabilityIssue } else { s.CloseVulnerabilityIssue }
IssueOp(r) == IF r.IsVulnerable THEN "open" ELSE "close"

\* PublishAsGitlabIssues has no result: its caller receives no warning
PublishIssuesResult == NilErr

PublishIdle ==
    /\ pubPc = "idle"
    /\ pubReports = <<>>
    /\ pubTaskPc = [t \in Tasks |-> "none"]
    /\ pubOps = [t \in Tasks |-> <<>>]
    /\ pubIssueUrl = [t \in Tasks |-> FALSE]
    /\ pubLogged = {}
    /\ pubWg = 0

PublishInit ==
    /\ pubPc = "spawn"
    /\ pubReports \in ReportLists
    /\ pubTaskPc = [t \in Tasks |-> "none"]
    /\ pubOps = [t \in Tasks |-> <<>>]
    /\ pubIssueUrl = [t \in Tasks |-> FALSE]
    /\ pubLogged = {}
    /\ pubWg = 0

\* one iteration of the loop over reports: wg.Add(1) and the go statement
PublishSpawn ==
    /\ pubPc = "spawn"
    /\ \E i \in 1..Len(pubReports) :
          /\ pubTaskPc[i] = "none"
          /\ \A j \in 1..(i - 1) : pubTaskPc[j] # "none"
          /\ pubWg' = pubWg + 1
          /\ pubTaskPc' = [pubTaskPc EXCEPT ![i] = "running"]
    /\ UNCHANGED <<pubPc, pubReports, pubOps, pubIssueUrl, pubLogged>>
    /\ UNCHANGED otherThanPublish

\* the goroutine of report i calls the tracker: on failure the error is
\* logged, on a successful open the issue URL is stored in the report
PublishCall(i) ==
    /\ pubTaskPc[i] = "running"
    /\ \E failed \in BOOLEAN :
          /\ pubOps' = [pubOps EXCEPT ![i] =
                           Append(@, [op |-> IssueOp(pubReports[i]),
                                      project |-> pubReports[i].Project,
                                      failed |-> failed])]
          /\ pubLogged' = IF failed
                          THEN pubLogged \cup {pubReports[i].Project}
                          ELSE pubLogged
          /\ pubIssueUrl' = IF ~failed /\ IssueOp(pubReports[i]) = "open"
                            THEN [pubIssueUrl EXCEPT ![i] = TRUE]
                            ELSE pubIssueUrl
    /\ pubTaskPc' = [pubTaskPc EXCEPT ![i] = "called"]
    /\ UNCHANGED <<pubPc, pubReports, pubWg>>
    /\ UNCHANGED otherThanPublish

\* the deferred wg.Done() of the goroutine of report i
PublishDone(i) ==
    /\ pubTaskPc[i] = "called"
    /\ pubWg' = pubWg - 1
    /\ pubTaskPc' = [pubTaskPc EXCEPT ![i] = "done"]
    /\ UNCHANGED <<pubPc, pubReports, pubOps, pubIssueUrl, pubLogged>>
    /\ UNCHANGED otherThanPublish

\* wg.Wait() after the loop, and the return
PublishWait ==
    /\ pubPc = "spawn"
    /\ \A i \in 1..Len(pubReports) : pubTaskPc[i] # "none"
    /\ pubWg = 0
    /\ pubPc' = "returned"
    /\ UNCHANGED <<pubReports, pubTaskPc, pubOps, pubIssueUrl, pubLogged, pubWg>>
    /\ UNCHANGED otherThanPublish

PublishNext ==
    \/ PublishSpawn
    \/ \E i \in Tasks : PublishCall(i)
    \/ \E i \in Tasks : PublishDone(i)
    \/ PublishWait

\* ------------------------------------------------------------------------
\* splitMessage: a string is a sequence of bytes
\* ------------------------------------------------------------------------
\* longest text passed to splitMessage
MaxTextLen == 5
\* largest maxLen passed to splitMessage
MaxChunkLen == 3

NL == "\n"

Bytes == {"a", NL}

Texts == UNION {[1..n -> Bytes] : n \in 0..MaxTextLen}

\* strings.LastIndex(s, sep) for a one-byte sep: the 0-based index of the
\* last occurrence, -1 when there is none
LastIndex(s, sep) ==
    LET at == {k \in 1..Len(s) : s[k] = sep}
    IN  IF at = {} THEN -1
        ELSE (CHOOSE k \in at : \A j \in at : j <= k) - 1

\* the slice expression s[lo:hi]
Slice(s, lo, hi) == SubSeq(s, lo + 1, hi)

\* the index of the cut: just after the last newline of s[:maxLen], or maxLen
CutIndexAlwaysMaxLen(s, maxLen) == maxLen

CutIndex(s, maxLen) ==
    LET idx == LastIndex(Slice(s, 0, maxLen), NL)
    IN  IF idx = -1 THEN maxLen ELSE idx + 1

\* s = s[idx:]
RemainderSkipsByte(s, idx) == Slice(s, idx + 1, Len(s))

Remainder(s, idx) == Slice(s, idx, Len(s))

SplitIdle ==
    /\ splitPc = "idle"
    /\ splitArg = <<>>
    /\ splitMaxLen = 0
    /\ splitS = <<>>
    /\ splitChunks = <<>>
    /\ splitCuts = <<>>

\* the call splitMessage(s, maxLen) with an empty chunks slice
SplitInit ==
    /\ splitPc = "loop"
    /\ splitArg \in Texts
    /\ splitMaxLen \in 1..MaxChunkLen
    /\ splitS = splitArg
    /\ splitChunks = <<>>
    /\ splitCuts = <<>>

\* one iteration of the loop for len(s) > maxLen
SplitCut ==
    /\ splitPc = "loop"
    /\ Len(splitS) > splitMaxLen
    /\ LET idx == CutIndex(splitS, splitMaxLen)
       IN  /\ splitChunks' = Append(splitChunks, Slice(splitS, 0, idx))
           /\ splitS' = Remainder(splitS, idx)
           /\ splitCuts' = Append(splitCuts, [s |-> splitS, idx |-> idx])
    /\ UNCHANGED <<splitPc, splitArg, splitMaxLen>>
    /\ UNCHANGED otherThanSplit

\* the loop condition is false: append the rest and return chunks
SplitReturn ==
    /\ splitPc = "loop"
    /\ ~(Len(splitS) > splitMaxLen)
    /\ splitChunks' = Append(splitChunks, splitS)
    /\ splitPc' = "returned"
    /\ UNCHANGED <<splitArg, splitMaxLen, splitS, splitCuts>>
    /\ UNCHANGED otherThanSplit

SplitNext ==
    \/ SplitCut
    \/ SplitReturn

\* ------------------------------------------------------------------------
\* PublishAsGeneralSlackMessage: the summary and its thread of chunks
\* ------------------------------------------------------------------------
\* the message limit passed to splitMessage (3000 in the code; the model
\* splits the same way over shorter texts)
SlackMessageLimit == 2

\* the message ids PostMessage can return for the summary
Timestamps == {"1700000000.000100", "1700000000.000200"}

GeneralChannel == "security"

\* splitMessage as a function: the chunks of s
RECURSIVE splitMessage(_, _)
splitMessage(s, maxLen) ==
    IF Len(s) > maxLen
    THEN LET idx == CutIndex(s, maxLen)
         IN  <<Slice(s, 0, idx)>> \o splitMessage(Remainder(s, idx), maxLen)
    ELSE <<s>>

\* formatReportMessage: one message option per chunk of the text
formatReportMessage(text) ==
    LET splitText == splitMessage(text, SlackMessageLimit)
    IN  [k \in 1..Len(splitText) |-> [kind |-> "chunk", text |-> splitText[k]]]

\* formatSummary: the message option of the summary
formatSummary == [kind |-> "summary", text |-> <<>>]

\* the arguments of the PostMessage call of a reply: the option and
\* MsgOptionTS(ts)
ReplyArgsWithoutThread(channelName, option, ts) ==
    [channel |-> channelName, option |-> option, thread |-> NotSet]

ReplyArgs(channelName, option, ts) ==
    [channel |-> channelName, option |-> option, thread |-> ts]

GeneralIdle ==
    /\ genPc = "idle"
    /\ genText = <<>>
    /\ genMsgOptions = <<>>
    /\ genIdx = 0
    /\ genTs = NotSet
    /\ genErr = NilErr
    /\ genPosts = <<>>

GeneralInit ==
    /\ genPc = "summary"
    /\ genText \in Texts
    /\ genMsgOptions = <<>>
    /\ genIdx = 0
    /\ genTs = NotSet
    /\ genErr = NilErr
    /\ genPosts = <<>>

\* ts, err := s.PostMessage(channelName, summary...), the error return, and
\* msgOptions := formatReportMessage(...)
PostSummary ==
    /\ genPc = "summary"
    /\ \E ok \in BOOLEAN, ts \in Timestamps :
          LET call == [channel |-> GeneralChannel, option |-> formatSummary,
                       thread |-> NotSet]
          IN  /\ genPosts' = Append(genPosts, [call |-> call, ok |-> ok,
                                               ts |-> IF ok THEN ts ELSE NotSet])
              /\ IF ok
                 THEN /\ genTs' = ts
                      /\ genMsgOptions' = formatReportMessage(genText)
                      /\ genIdx' = 1
                      /\ genPc' = "thread"
                      /\ UNCHANGED genErr
                 ELSE /\ genErr' = Join("failed to post slack summary",
                                        <<"post failed">>)
                      /\ genPc' = "returned"
                      /\ UNCHANGED <<genTs, genMsgOptions, genIdx>>
    /\ UNCHANGED genText
    /\ UNCHANGED otherThanGeneral

\* one iteration of the loop over msgOptions: the reply and its error return
PostReply ==
    /\ genPc = "thread"
    /\ genIdx <= Len(genMsgOptions)
    /\ \E ok \in BOOLEAN, ts \in Timestamps :
          LET call == ReplyArgs(GeneralChannel, genMsgOptions[genIdx], genTs)
          IN  /\ genPosts' = Append(genPosts, [call |-> call, ok |-> ok,
                                               ts |-> IF ok THEN ts ELSE NotSet])
              /\ IF ok
                 THEN /\ genIdx' = genIdx + 1
                      /\ UNCHANGED <<genErr, genPc>>
                 ELSE /\ genErr' =
                            Join("failed to message in slack summary thread",
                                 <<"post failed">>)
                      /\ genPc' = "returned"
                      /\ UNCHANGED genIdx
    /\ UNCHANGED <<genText, genMsgOptions, genTs>>
    /\ UNCHANGED otherThanGeneral

\* the loop is over: return with err nil
GeneralReturn ==
    /\ genPc = "thread"
    /\ genIdx > Len(genMsgOptions)
    /\ genPc' = "returned"
    /\ UNCHANGED <<genText, genMsgOptions, genIdx, genTs, genErr, genPosts>>
    /\ UNCHANGED otherThanGeneral

GeneralNext ==
    \/ PostSummary
    \/ PostReply
    \/ GeneralReturn

\* ------------------------------------------------------------------------
\* findSlackChannel: the paged search for a channel by name
\* ------------------------------------------------------------------------
\* largest number of channels of the workspace
MaxChannels == 3
\* page size of the channel listing (the code asks for 1000 per page; the
\* model pages the same way over shorter listings)
ChannelsPerPage == 2
\* s.maxAttempts of the service (5 in New, 3 in the tests)
ServiceMaxAttempts == 2
\* largest number of findSlackChannel calls made on one service
MaxFindCalls == 2

\* the channels a workspace can hold; two of them have the same name
ChannelValues ==
    {[ID |-> "C1", Name |-> "security"],
     [ID |-> "C2", Name |-> "security"],
     [ID |-> "C3", Name |-> "general"]}

ChannelNames == {"security", "general", "missing"}

Workspaces == UNION {[1..n -> ChannelValues] : n \in 0..MaxChannels}

NoChannel == [ID |-> "", Name |-> ""]

\* client.GetConversations with Cursor = cursor: one page of channels and
\* the next cursor, 0 for the empty cursor
GetConversations(all, cursor) ==
    LET first == cursor * ChannelsPerPage + 1
        end == Min((cursor + 1) * ChannelsPerPage, Len(all))
    IN  [Channels |-> [k \in 1..(end - first + 1) |-> all[first + k - 1]],
         NextCursor |-> IF Len(all) > (cursor + 1) * ChannelsPerPage
                        THEN cursor + 1 ELSE 0]

\* the index of the last match instead of the first
FindLastUsing(channels, channelName) ==
    LET at == {k \in 1..Len(channels) : channels[k].Name = channelName}
    IN  IF at = {} THEN 0 ELSE CHOOSE k \in at : \A j \in at : k >= j

\* pie.FindFirstUsing(channels, c.Name == channelName): the index of the
\* first match (from 1), 0 when there is none
FindFirstUsing(channels, channelName) ==
    LET at == {k \in 1..Len(channels) : channels[k].Name = channelName}
    IN  IF at = {} THEN 0 ELSE CHOOSE k \in at : \A j \in at : k <= j

FindIdle ==
    /\ conversations = <<>>
    /\ findPc = "idle"
    /\ findName = ""
    /\ findCursor = 0
    /\ findLog = <<>>
    /\ findResults = <<>>

\* a service just built: nothing was looked up yet
FindInit ==
    /\ conversations \in Workspaces
    /\ findPc = "idle"
    /\ findName = ""
    /\ findCursor = 0
    /\ findLog = <<>>
    /\ findResults = <<>>

\* the call findSlackChannel(channelName): nextCursor is the empty cursor
FindStart ==
    /\ findPc = "idle"
    /\ Len(findResults) < MaxFindCalls
    /\ \E channelName \in ChannelNames : findName' = channelName
    /\ findCursor' = 0
    /\ findPc' = "loop"
    /\ UNCHANGED <<conversations, findLog, findResults>>
    /\ UNCHANGED otherThanFind

\* the GetConversations calls runWithRetries makes for one page: fails
\* failed calls, followed by a successful one when fails < maxAttempts
PageCalls(fails) ==
    [k \in 1..Min(fails + 1, ServiceMaxAttempts) |->
        [find |-> Len(findResults) + 1, name |-> findName,
         cursor |-> findCursor, ok |-> k > fails]]

\* one iteration of the loop: the page is requested with retries, then
\* searched for the name
FindPage ==
    /\ findPc = "loop"
    /\ \E fails \in 0..ServiceMaxAttempts :
          LET page == GetConversations(conversations, findCursor)
              idx == FindFirstUsing(page.Channels, findName)
              finish(res) ==
                  /\ findResults' = Append(findResults, res)
                  /\ findPc' = "idle"
                  /\ UNCHANGED findCursor
          IN  /\ findLog' = findLog \o PageCalls(fails)
              /\ IF fails >= ServiceMaxAttempts
                 THEN finish([name |-> findName, channel |-> NoChannel,
                              err |-> "failed to get slack channel list"])
                 ELSE IF idx > 0
                 THEN finish([name |-> findName,
                              channel |-> page.Channels[idx], err |-> NoErr])
                 ELSE IF page.NextCursor = 0
                 THEN finish([name |-> findName, channel |-> NoChannel,
                              err |-> "channel not found"])
                 ELSE /\ findCursor' = page.NextCursor
                      /\ UNCHANGED <<findResults, findPc>>
    /\ UNCHANGED <<conversations, findName>>
    /\ UNCHANGED otherThanFind

FindNext ==
    \/ FindStart
    \/ FindPage

\* ------------------------------------------------------------------------
\* Patrol: scanAndGetReports, then the sinks
\* ------------------------------------------------------------------------
\* largest number of projects the listing step returns in a whole patrol
MaxPatrolProjects == 2

\* a field of args that Patrol has not read yet.  Patrol reads every field
\* once and nothing changes args, so the model draws the value of a field
\* when it is read.
Unread == "unread"

On == "on"

Off == "off"

Flag(b) == IF b THEN On ELSE Off

NoArgs == [ReportToIssue |-> Unread, SlackService |-> Unread,
           ReportToSlackChannels |-> Unread, EnableProjectReportTo |-> Unread]

\* if err != nil, after scanAndGetReports
ScanFailedNever(e) == FALSE

ScanFailed(e) == e # NoErr

\* len(scanReports) == 0
NoReportsNever(r) == FALSE

NoReports(r) == Len(r) = 0

\* w = errors.Join(errors.New(label), w); warn = errors.Join(w, warn)
WrapAndJoinDropped(label, w, into) == into

WrapAndJoin(label, w, into) == Join([label |-> label, cause |-> w], into)

PatrolIdle ==
    /\ patrolPc = "idle"
    /\ patrolArgs = NoArgs
    /\ patrolWarn = NilErr
    /\ patrolErr = NilErr
    /\ sinkLog = <<>>

\* Patrol has called scanAndGetReports
PatrolInit ==
    /\ patrolPc = "scan"
    /\ patrolArgs = NoArgs
    /\ patrolWarn = NilErr
    /\ patrolErr = NilErr
    /\ sinkLog = <<>>

\* scanAndGetReports has returned: the fatal return, the join of the scan
\* warning, and the return for an empty report list
ScanReturned ==
    /\ patrolPc = "scan"
    /\ mainPc = "returned"
    /\ IF ScanFailed(err)
       THEN /\ patrolErr' = Join("failed to scan projects", <<err>>)
            /\ patrolWarn' = NilErr
            /\ patrolPc' = "returned"
       ELSE LET swarn == IF warn # NilErr
                         THEN WrapAndJoin("errors occured when scanning projects",
                                          warn, NilErr)
                         ELSE NilErr
            IN  /\ patrolWarn' = swarn
                /\ patrolPc' = IF NoReports(reports) THEN "returned" ELSE "issues"
                /\ UNCHANGED patrolErr
    /\ UNCHANGED <<patrolArgs, sinkLog>>
    /\ UNCHANGED otherThanPatrol

\* if args.ReportToIssue: PublishAsGitlabIssues and the join of its warning
IssuesSink ==
    /\ patrolPc = "issues"
    /\ \E enabled \in BOOLEAN, failed \in BOOLEAN :
          /\ enabled \/ ~failed
          /\ patrolArgs' = [patrolArgs EXCEPT !.ReportToIssue = Flag(enabled)]
          /\ sinkLog' = IF enabled
                        THEN Append(sinkLog, [sink |-> "issues",
                                              failed |-> failed])
                        ELSE sinkLog
          /\ patrolWarn' = IF failed
                           THEN WrapAndJoin("errors occured when creating issues",
                                            <<"issue error">>, patrolWarn)
                           ELSE patrolWarn
    /\ patrolPc' = "general"
    /\ UNCHANGED patrolErr
    /\ UNCHANGED otherThanPatrol

\* if s.slackService != nil and len(args.ReportToSlackChannels) > 0:
\* PublishAsGeneralSlackMessage and the join of its error
GeneralSink ==
    /\ patrolPc = "general"
    /\ \E slack \in BOOLEAN, enabled \in BOOLEAN, failed \in BOOLEAN :
          /\ slack \/ ~enabled
          /\ enabled \/ ~failed
          /\ patrolArgs' = [patrolArgs EXCEPT
                               !.SlackService = Flag(slack),
                               !.ReportToSlackChannels =
                                   IF slack THEN Flag(enabled) ELSE Unread]
          /\ sinkLog' = IF enabled
                        THEN Append(sinkLog, [sink |-> "general",
                                              failed |-> failed])
                        ELSE sinkLog
          /\ patrolWarn' = IF failed
                           THEN WrapAndJoin("failed to post slack report",
                                            <<"slack error">>, patrolWarn)
                           ELSE patrolWarn
          /\ patrolPc' = IF slack THEN "specific" ELSE "console"
    /\ UNCHANGED patrolErr
    /\ UNCHANGED otherThanPatrol

\* if args.EnableProjectReportTo: PublishAsSpecificChannelSlackMessage and
\* the join of its warning
SpecificSink ==
    /\ patrolPc = "specific"
    /\ \E enabled \in BOOLEAN, failed \in BOOLEAN :
          /\ enabled \/ ~failed
          /\ patrolArgs' = [patrolArgs EXCEPT
                               !.EnableProjectReportTo = Flag(enabled)]
          /\ sinkLog' = IF enabled
                        THEN Append(sinkLog, [sink |-> "specific",
                                              failed |-> failed])
                        ELSE sinkLog
          /\ patrolWarn' =
                 IF failed
                 THEN WrapAndJoin(
                          "errors occured when posting to project slack channel",
                          <<"slack error">>, patrolWarn)
                 ELSE patrolWarn
    /\ patrolPc' = "console"
    /\ UNCHANGED patrolErr
    /\ UNCHANGED otherThanPatrol

\* publish.PublishToConsole and return warn, nil
ConsoleSink ==
    /\ patrolPc = "console"
    /\ sinkLog' = Append(sinkLog, [sink |-> "console", failed |-> FALSE])
    /\ patrolPc' = "returned"
    /\ UNCHANGED <<patrolArgs, patrolWarn, patrolErr>>
    /\ UNCHANGED otherThanPatrol

\* ------------------------------------------------------------------------
\* GetProjectList (internal/repository/github/github.go), as the listing
\* step of a whole patrol: one goroutine per path, an errgroup and a
\* buffered channel
\* ------------------------------------------------------------------------
\* largest number of locations in args.Locations
MaxLocations == 2

\* the platform of a location; the listing service is asked for the
\* locations of its own platform only
LocationTypes == {"gitlab", "github"}

LocationLists == UNION {[1..n -> LocationTypes] : n \in 0..MaxLocations}

RECURSIVE SumSeq(_)
SumSeq(s) == IF s = <<>> THEN 0 ELSE Head(s) + SumSeq(Tail(s))

\* pie.Filter(locations, Type == config.Gitlab), mapped to the paths
gitlabLocs(locs) == SelectSeq(locs, LAMBDA v : v = "gitlab")

\* getPathRepos: the repositories of a path, or no repository and an error
getPathRepos(failed, k) ==
    IF failed THEN [repos |-> 0, err |-> TRUE]
    ELSE [repos |-> k, err |-> FALSE]

\* the loop over the closed channel: append(allRepos, repos...)
allReposFirstOnly(chan) == IF chan = <<>> THEN 0 ELSE Head(chan)

allRepos(chan) == SumSeq(chan)

ListIdle ==
    /\ locations = <<>>
    /\ listPc = <<>>
    /\ reposChan = <<>>
    /\ groupErr = 0

\* Patrol was called with args.Locations; GetProjectList is not running
ListInit ==
    /\ locations \in LocationLists
    /\ listPc = <<>>
    /\ reposChan = <<>>
    /\ groupErr = 0

\* the call of GetProjectList(gitlabLocs): make(chan, len(paths)) and one
\* goroutine per path
ListCall ==
    /\ mainPc = "list"
    /\ listPc = <<>>
    /\ listPc' = [l \in 1..Len(gitlabLocs(locations)) |-> "ready"]
    /\ reposChan' = <<>>
    /\ groupErr' = 0
    /\ mainPc' = "listing"
    /\ UNCHANGED <<listed, projects, taskPc, taskErr, taskReport, warnRead,
                   warn, reportsChan, wg, reports, err, rootDir, taskDirs,
                   pwarn>>
    /\ UNCHANGED locations
    /\ UNCHANGED otherThanScanAndList

\* the goroutine of path l: getPathRepos, the send of its repositories, and
\* the return of its error to the errgroup, which keeps the first one.  The
\* answer of the platform is drawn here; a whole patrol lists at most
\* MaxPatrolProjects projects.
ListGo(l) ==
    /\ mainPc = "listing"
    /\ l \in DOMAIN listPc
    /\ listPc[l] = "ready"
    /\ \E failed \in BOOLEAN,
          k \in 0..(MaxPatrolProjects - SumSeq(reposChan)) :
          LET r == getPathRepos(failed, k)
          IN  /\ reposChan' = Append(reposChan, r.repos)
              /\ groupErr' = IF r.err /\ groupErr = 0 THEN l ELSE groupErr
    /\ listPc' = [listPc EXCEPT ![l] = "done"]
    /\ UNCHANGED locations
    /\ UNCHANGED otherThanList

\* g.Wait(), close(reposChan), the collection of the repositories and, back
\* in scanAndGetReports, the join of the warning; the goroutines, the
\* channel and the errgroup of the call are gone
ListReturn ==
    /\ mainPc = "listing"
    /\ \A l \in DOMAIN listPc : listPc[l] = "done"
    /\ ProjectsListed(allRepos(reposChan), groupErr # 0)
    /\ listPc' = <<>>
    /\ reposChan' = <<>>
    /\ groupErr' = 0
    /\ UNCHANGED locations
    /\ UNCHANGED otherThanScanAndList

\* ------------------------------------------------------------------------
\* PatrolAction (internal/cli/patrol.go), from its call of Patrol on: the
\* services are built and the target URLs are parsed
\* ------------------------------------------------------------------------
\* if warn, err := patrolService.Patrol(...); err != nil
PatrolFailedAlways(e) == TRUE

PatrolFailed(e) == e # NilErr

\* else if warn != nil
PartiallySuccessfulNever(w) == FALSE

PartiallySuccessful(w) == w # NilErr

\* the result of PatrolAction for the warning and the error of Patrol: the
\* wrapped error, cli.Exit with status 1, or nil
PatrolActionResult(w, e) ==
    IF PatrolFailed(e) THEN "failed to scan"
    ELSE IF PartiallySuccessful(w) THEN "exit 1"
    ELSE "nil"

ActionIdle == actionResult = "none"

\* PatrolAction has called Patrol
ActionInit == actionResult = "pending"

\* Patrol has returned to PatrolAction
PatrolActionReturn ==
    /\ patrolPc = "returned"
    /\ actionResult = "pending"
    /\ actionResult' = PatrolActionResult(patrolWarn, patrolErr)
    /\ UNCHANGED otherThanAction

PatrolNext ==
    \/ MkdirAll
    \/ ListCall
    \/ \E l \in 1..MaxLocations : ListGo(l)
    \/ ListReturn
    \/ Spawn
    \/ Wait
    \/ Collect
    \/ \E t \in Tasks : ScanTask(t)
    \/ ScanReturned
    \/ IssuesSink
    \/ GeneralSink
    \/ SpecificSink
    \/ ConsoleSink
    \/ PatrolActionReturn

\* ------------------------------------------------------------------------
\* The report of one project (internal/patrol/patrol.go, scanProject after
\* the scan; internal/scanner/vulnscanner.go): the classification of the
\* findings and the merge of the acknowledgements.  Scores are in tenths.
\* ------------------------------------------------------------------------
\* largest number of findings of a scan
MaxFindings == 2

\* largest number of entries of config.Acknowledged
MaxAcks == 2

Critical == "CRITICAL"

High == "HIGH"

Moderate == "MODERATE"

Low == "LOW"

Unknown == "UNKNOWN"

Acknowledged == "ACKNOWLEDGED"

Kinds == {Critical, High, Moderate, Low, Unknown, Acknowledged}

SeverityScoreThresholds ==
    (Critical :> 90) @@ (High :> 80) @@ (Moderate :> 30) @@ (Low :> 0)
    @@ (Unknown :> -10) @@ (Acknowledged :> -20)

\* the comparison of getSeverityScoreOrder:
\* cmp.Compare(thresholds[b], thresholds[a])
CompareKindsAscending(thresholds, a, b) ==
    Compare(thresholds[a], thresholds[b])

CompareKinds(thresholds, a, b) == Compare(thresholds[b], thresholds[a])

\* slices.SortFunc(kinds, ...) over the kinds of the table, whose thresholds
\* differ from each other
RECURSIVE SortKinds(_, _)
SortKinds(thresholds, kinds) ==
    IF kinds = {} THEN <<>>
    ELSE LET first == CHOOSE a \in kinds :
                          \A b \in kinds : CompareKinds(thresholds, a, b) <= 0
         IN  <<first>> \o SortKinds(thresholds, kinds \ {first})

getSeverityScoreOrder(thresholds) == SortKinds(thresholds, DOMAIN thresholds)

\* the kind of a numeric score: the first kind, in the order of
\* getSeverityScoreOrder, whose threshold the score meets
RECURSIVE FirstMet(_, _)
FirstMet(score, order) ==
    IF order = <<>> THEN Unknown
    ELSE IF score >= SeverityScoreThresholds[Head(order)] THEN Head(order)
    ELSE FirstMet(score, Tail(order))

getSeverityScoreKind(score) ==
    FirstMet(score, getSeverityScoreOrder(SeverityScoreThresholds))

\* the numeric scores of the findings: each threshold and the score just
\* below it, none below the lowest threshold
Scores ==
    {s \in {SeverityScoreThresholds[k] - d : k \in Kinds, d \in {0, 1}} :
        \E k \in Kinds : s >= SeverityScoreThresholds[k]}

Codes == {"CVE-1", "CVE-2"}

Reasons == {"", "accepted"}

\* the findings of a scan, and the values of config.Acknowledged
Findings ==
    UNION {[1..n -> [Id : Codes, Severity : Scores]] : n \in 0..MaxFindings}

AckLists ==
    UNION {[1..n -> [Code : Codes, Reason : Reasons]] : n \in 0..MaxAcks}

\* osvService.GenerateReport(project, osvReport), with the fields of the
\* vulnerabilities
GenerateReportOf(project, osvReport) ==
    [Project |-> project, Error |-> FALSE,
     IsVulnerable |-> Len(osvReport) > 0,
     Vulnerabilities |->
        [i \in DOMAIN osvReport |->
            [Id |-> osvReport[i].Id,
             Severity |-> osvReport[i].Severity,
             SeverityScoreKind |-> getSeverityScoreKind(osvReport[i].Severity),
             AckReason |-> ""]]]

\* the two maps markVulnsAsAcknowledgedInReport builds: a later entry of a
\* code replaces an earlier one
ackCodes(config) == {config[k].Code : k \in DOMAIN config}

AckReasons(config) ==
    [c \in ackCodes(config) |->
        LET final == CHOOSE k \in DOMAIN config :
                        /\ config[k].Code = c
                        /\ \A j \in DOMAIN config :
                              config[j].Code = c => j <= k
        IN  config[final].Reason]

markVulnsKeepingReason(report, config) ==
    [report EXCEPT !.Vulnerabilities =
        [i \in DOMAIN report.Vulnerabilities |->
            LET v == report.Vulnerabilities[i]
            IN  IF v.Id \in ackCodes(config)
                THEN [v EXCEPT !.SeverityScoreKind = Acknowledged]
                ELSE v]]

markVulnsAsAcknowledgedInReport(report, config) ==
    [report EXCEPT !.Vulnerabilities =
        [i \in DOMAIN report.Vulnerabilities |->
            LET v == report.Vulnerabilities[i]
            IN  IF v.Id \in ackCodes(config)
                THEN [v EXCEPT !.SeverityScoreKind = Acknowledged,
                               !.AckReason = AckReasons(config)[v.Id]]
                ELSE v]]

BuildIdle ==
    /\ bldPc = "idle"
    /\ bldConfig = <<>>
    /\ bldReport = NoReport

\* the scanner has returned; the configuration of the project was read
BuildInit ==
    /\ bldPc = "scanned"
    /\ bldConfig \in AckLists
    /\ bldReport = NoReport

\* r := s.osvService.GenerateReport(project, osvReport)
BuildGenerate ==
    /\ bldPc = "scanned"
    /\ \E osvReport \in Findings :
          bldReport' = GenerateReportOf(Project(1), osvReport)
    /\ bldPc' = "generated"
    /\ UNCHANGED bldConfig
    /\ UNCHANGED otherThanBuild

\* r.ProjectConfig = config; markVulnsAsAcknowledgedInReport(&r, config)
BuildMark ==
    /\ bldPc = "generated"
    /\ bldReport' = markVulnsAsAcknowledgedInReport(bldReport, bldConfig)
    /\ bldPc' = "merged"
    /\ UNCHANGED bldConfig
    /\ UNCHANGED otherThanBuild

BuildNext ==
    \/ BuildGenerate
    \/ BuildMark

\* ------------------------------------------------------------------------
\* getGithubPaginatedResults (internal/repository/github/github.go)
\* ------------------------------------------------------------------------
\* largest page number a response names as the next page
MaxNextPage == 3

\* largest number of items of one page
MaxPageItems == 2

\* largest number of calls of the page function in one listing
MaxPageCalls == 3

\* the items of a page: the page function decides how many
PageItems(page, n) == [i \in 1..n |-> [page |-> page, item |-> i]]

\* opts.Page = resp.NextPage
NextOptsPageIncrement(page, resp) == page + 1

NextOptsPage(page, resp) == resp.NextPage

PageIdle ==
    /\ pgPc = "idle"
    /\ pgPage = 0
    /\ pgResults = <<>>
    /\ pgErr = FALSE
    /\ pgLog = <<>>

\* opts := github.ListOptions{PerPage: 100, Page: 1}
PageInit ==
    /\ pgPc = "loop"
    /\ pgPage = 1
    /\ pgResults = <<>>
    /\ pgErr = FALSE
    /\ pgLog = <<>>

\* one iteration of the loop, for a call of the page function that fails
PageCallFails ==
    /\ pgPc = "loop"
    /\ Len(pgLog) < MaxPageCalls
    /\ pgLog' = Append(pgLog, [page |-> pgPage, failed |-> TRUE,
                               items |-> <<>>, NextPage |-> 0])
    /\ pgResults' = <<>>
    /\ pgErr' = TRUE
    /\ pgPc' = "returned"
    /\ UNCHANGED pgPage
    /\ UNCHANGED otherThanPage

\* one iteration of the loop, for a call of the page function that answers
\* with a page of items and the number of the next page
PageCall ==
    /\ pgPc = "loop"
    /\ Len(pgLog) < MaxPageCalls
    /\ \E n \in 0..MaxPageItems, next \in 0..MaxNextPage :
          LET resp == [page |-> pgPage, failed |-> FALSE,
                       items |-> PageItems(pgPage, n), NextPage |-> next]
          IN  /\ pgLog' = Append(pgLog, resp)
              /\ pgResults' = pgResults \o resp.items
              /\ IF resp.NextPage = 0
                 THEN /\ pgPc' = "returned"
                      /\ UNCHANGED pgPage
                 ELSE /\ pgPage' = NextOptsPage(pgPage, resp)
                      /\ UNCHANGED pgPc
    /\ UNCHANGED pgErr
    /\ UNCHANGED otherThanPage

PageNext ==
    \/ PageCallFails
    \/ PageCall

\* ------------------------------------------------------------------------
\* The counts of the summary message (internal/slack/slack.go,
\* PublishAsGeneralSlackMessage and formatSummary)
\* ------------------------------------------------------------------------
\* largest number of reports of a summary
MaxSummaryReports == 2

\* largest number of vulnerabilities of a report of a summary
MaxSummaryVulns == 2

\* the kinds of the vulnerabilities of the reports of a summary
SummaryKinds == {Critical, Low, Acknowledged}

SummaryReports ==
    LET vulns == UNION {[1..n -> [SeverityScoreKind : SummaryKinds]] :
                           n \in 0..MaxSummaryVulns}
        report(v) == [Error |-> FALSE, IsVulnerable |-> Len(v) > 0,
                      Vulnerabilities |-> v]
    IN  UNION {[1..n -> {report(v) : v \in vulns}] :
                  n \in 0..MaxSummaryReports}

\* the kind of the most severe vulnerability of a report, in the order of
\* getSeverityScoreOrder
RECURSIVE FirstKindOf(_, _)
FirstKindOf(report, order) ==
    IF order = <<>> THEN Unknown
    ELSE IF \E i \in DOMAIN report.Vulnerabilities :
                report.Vulnerabilities[i].SeverityScoreKind = Head(order)
         THEN Head(order)
         ELSE FirstKindOf(report, Tail(order))

MaxSeverityKind(report) ==
    FirstKindOf(report, getSeverityScoreOrder(SeverityScoreThresholds))

\* groupVulnReportsByMaxSeverityKind: the vulnerable reports, each under the
\* kind of its most severe vulnerability
groupVulnReportsByMaxSeverityKind(rs) ==
    [kind \in Kinds |->
        SelectSeq(rs, LAMBDA r : r.IsVulnerable /\ MaxSeverityKind(r) = kind)]

\* the counts of formatSummary: for each kind of severityScoreOrder,
\* len(group), or 0 for a kind without a group
SummaryCounts(reportsBySeverityKind) ==
    [kind \in Kinds |-> Len(reportsBySeverityKind[kind])]

SummaryIdle ==
    /\ sumPc = "idle"
    /\ sumReports = <<>>
    /\ sumCounts = [kind \in Kinds |-> 0]

\* PublishAsGeneralSlackMessage was called with the reports of the run
SummaryInit ==
    /\ sumPc = "reports"
    /\ sumReports \in SummaryReports
    /\ sumCounts = [kind \in Kinds |-> 0]

\* groupVulnReportsByMaxSeverityKind(reports) and formatSummary
Summarise ==
    /\ sumPc = "reports"
    /\ sumCounts' = SummaryCounts(groupVulnReportsByMaxSeverityKind(sumReports))
    /\ sumPc' = "formatted"
    /\ UNCHANGED sumReports
    /\ UNCHANGED otherThanSummary

SummaryNext == Summarise

\* ------------------------------------------------------------------------
\* PublishAsSpecificChannelSlackMessage (internal/slack/slack.go)
\* ------------------------------------------------------------------------
\* largest number of reports handed to the publisher
MaxSpecificReports == 2

\* the values of ProjectConfig.ReportToSlackChannel; "" is no channel
ReportChannels == {"", "team-a", "team-b"}

SpecificReports ==
    UNION {[1..n -> [ReportToSlackChannel : ReportChannels]] :
              n \in 0..MaxSpecificReports}

SpecificTasks == 1..MaxSpecificReports

\* pie.Filter(reports, ReportToSlackChannel != ""): the positions kept
configuredReports(rs) ==
    {i \in DOMAIN rs : rs[i].ReportToSlackChannel # ""}

\* fmt.Errorf("failed to post slack report to channel %v", channel)
PostErr(channel) == [label |-> "failed to post slack report to channel",
                     channel |-> channel]

SpecificIdle ==
    /\ spcPc = "idle"
    /\ spcReports = <<>>
    /\ spcTaskPc = [i \in SpecificTasks |-> "none"]
    /\ spcRead = [i \in SpecificTasks |-> NilErr]
    /\ spcWarn = NilErr
    /\ spcPosts = <<>>
    /\ spcWg = 0

SpecificInit ==
    /\ spcPc = "spawn"
    /\ spcReports \in SpecificReports
    /\ spcTaskPc = [i \in SpecificTasks |-> "none"]
    /\ spcRead = [i \in SpecificTasks |-> NilErr]
    /\ spcWarn = NilErr
    /\ spcPosts = <<>>
    /\ spcWg = 0

\* one iteration of the loop over configuredReports: wg.Add(1) and the go
\* statement
SpecificSpawn ==
    /\ spcPc = "spawn"
    /\ \E i \in configuredReports(spcReports) :
          /\ spcTaskPc[i] = "none"
          /\ \A j \in configuredReports(spcReports) :
                j < i => spcTaskPc[j] # "none"
          /\ spcWg' = spcWg + 1
          /\ spcTaskPc' = [spcTaskPc EXCEPT ![i] = "posting"]
    /\ UNCHANGED <<spcPc, spcReports, spcRead, spcWarn, spcPosts>>
    /\ UNCHANGED otherThanSpecific

\* s.PostMessage(report.ProjectConfig.ReportToSlackChannel, message...); when
\* it succeeds the goroutine ends and the deferred wg.Done() runs
SpecificPost(i) ==
    /\ spcTaskPc[i] = "posting"
    /\ \E ok \in BOOLEAN :
          /\ spcPosts' = Append(spcPosts,
                 [report |-> i,
                  channel |-> spcReports[i].ReportToSlackChannel,
                  ok |-> ok])
          /\ spcTaskPc' = [spcTaskPc EXCEPT
                             ![i] = IF ok THEN "done" ELSE "failed"]
          /\ spcWg' = IF ok THEN spcWg - 1 ELSE spcWg
    /\ UNCHANGED <<spcPc, spcReports, spcRead, spcWarn>>
    /\ UNCHANGED otherThanSpecific

\* warn = errors.Join(err, warn), first half: the unsynchronised read of warn
SpecificReadWarn(i) ==
    /\ spcTaskPc[i] = "failed"
    /\ spcRead' = [spcRead EXCEPT ![i] = spcWarn]
    /\ spcTaskPc' = [spcTaskPc EXCEPT ![i] = "joining"]
    /\ UNCHANGED <<spcPc, spcReports, spcWarn, spcPosts, spcWg>>
    /\ UNCHANGED otherThanSpecific

\* warn = errors.Join(err, warn), second half: the unsynchronised write, and
\* the deferred wg.Done()
SpecificWriteWarn(i) ==
    /\ spcTaskPc[i] = "joining"
    /\ spcWarn' = Join(PostErr(spcReports[i].ReportToSlackChannel), spcRead[i])
    /\ spcRead' = [spcRead EXCEPT ![i] = NilErr]
    /\ spcTaskPc' = [spcTaskPc EXCEPT ![i] = "done"]
    /\ spcWg' = spcWg - 1
    /\ UNCHANGED <<spcPc, spcReports, spcPosts>>
    /\ UNCHANGED otherThanSpecific

\* the loop is over; wg.Wait() returns when the counter is zero; return
SpecificWait ==
    /\ spcPc = "spawn"
    /\ \A i \in configuredReports(spcReports) : spcTaskPc[i] # "none"
    /\ spcWg = 0
    /\ spcPc' = "returned"
    /\ UNCHANGED <<spcReports, spcTaskPc, spcRead, spcWarn, spcPosts, spcWg>>
    /\ UNCHANGED otherThanSpecific

SpecificNext ==
    \/ SpecificSpawn
    \/ \E i \in SpecificTasks : SpecificPost(i)
    \/ \E i \in SpecificTasks : SpecificReadWarn(i)
    \/ \E i \in SpecificTasks : SpecificWriteWarn(i)
    \/ SpecificWait

\* ------------------------------------------------------------------------
\* githubService.GetProjectList, with the identity of the projects
\* (internal/repository/github/github.go)
\*
\* The platform holds one owner, "acme", with two repositories.  A path is
\* the result of strings.Split(path, "/").
\* ------------------------------------------------------------------------

MaxPaths == 2

Repository(id, name) == [ID |-> id, Name |-> name, Owner |-> "acme"]

OwnerRepositories == <<Repository(1, "api"), Repository(2, "web")>>

Paths == {<<"acme">>, <<"acme", "api">>, <<"acme", "web">>,
          <<"acme", "api", "main">>}

PathLists == UNION {[1..n -> Paths] : n \in 0..MaxPaths}

\* getOwnerRepos: every repository of the owner, or an error
getOwnerRepos(owner, failed) ==
    IF failed THEN [repos |-> <<>>, err |-> TRUE]
              ELSE [repos |-> OwnerRepositories, err |-> FALSE]

\* getOwnerRepository: the repository of that name
getOwnerRepository(owner, name, failed) ==
    IF failed THEN [repos |-> <<>>, err |-> TRUE]
    ELSE [repos |-> SelectSeq(OwnerRepositories,
                              LAMBDA r : r.Owner = owner /\ r.Name = name),
          err |-> FALSE]

\* getPathRepos, with the repositories it returns
getPathReposOf(parts, failed) ==
    IF Len(parts) = 1 THEN getOwnerRepos(parts[1], failed)
    ELSE IF Len(parts) = 2
         THEN getOwnerRepository(parts[1], parts[2], failed)
         ELSE [repos |-> <<>>, err |-> TRUE]

mapGithubProject(r) ==
    [ID |-> r.ID, Name |-> r.Name, GroupOrOwner |-> r.Owner,
     Path |-> <<r.Owner, r.Name>>, Repository |-> "github"]

RECURSIVE Flatten(_)
Flatten(chan) ==
    IF chan = <<>> THEN <<>> ELSE Head(chan) \o Flatten(Tail(chan))

\* pie.Map(allRepos, mapGithubProject)
MapProjects(repos) ==
    [i \in 1..Len(repos) |-> mapGithubProject(repos[i])]

ReposIdle ==
    /\ rpPc = "idle"
    /\ rpPaths = <<>>
    /\ rpTaskPc = <<>>
    /\ rpChan = <<>>
    /\ rpErr = 0
    /\ rpProjects = <<>>

\* GetProjectList(paths) after its loop of g.Go
ReposInit ==
    /\ rpPc = "wait"
    /\ rpPaths \in PathLists
    /\ rpTaskPc = [l \in 1..Len(rpPaths) |-> "ready"]
    /\ rpChan = <<>>
    /\ rpErr = 0
    /\ rpProjects = <<>>

\* the goroutine of path l: getPathRepos, the send, and the returned error
ReposGo(l) ==
    /\ rpPc = "wait"
    /\ l \in 1..Len(rpPaths)
    /\ rpTaskPc[l] = "ready"
    /\ Len(rpChan) < Len(rpPaths)
    /\ \E failed \in BOOLEAN :
          LET res == getPathReposOf(rpPaths[l], failed)
          IN  /\ rpChan' = Append(rpChan, res.repos)
              /\ rpErr' = IF res.err /\ rpErr = 0 THEN l ELSE rpErr
    /\ rpTaskPc' = [rpTaskPc EXCEPT ![l] = "done"]
    /\ UNCHANGED <<rpPc, rpPaths, rpProjects>>
    /\ UNCHANGED otherThanRepos

\* warn = g.Wait(); close(reposChan); the collection loop; pie.Map; return
ReposReturn ==
    /\ rpPc = "wait"
    /\ \A l \in 1..Len(rpPaths) : rpTaskPc[l] = "done"
    /\ rpProjects' = MapProjects(Flatten(rpChan))
    /\ rpPc' = "returned"
    /\ UNCHANGED <<rpPaths, rpTaskPc, rpChan, rpErr>>
    /\ UNCHANGED otherThanRepos

ReposNext ==
    \/ \E l \in 1..MaxPaths : ReposGo(l)
    \/ ReposReturn

\* ------------------------------------------------------------------------
\* ExtractTarGz (internal/compress)
\*
\* A path is the sequence of its components.  The process runs in the
\* directory Cwd and destDir is the directory os.MkdirTemp made for one
\* project under tempScanDir; the file system is the set of the absolute
\* locations that exist.
\* ------------------------------------------------------------------------

MaxEntries == 2
MaxNameParts == 3

Cwd == <<"work">>
destDir == <<"tmp_scans", "sheriff-1">>

Components == {"..", "", "a", "sheriff-2"}

\* strings.Split(header.Name, "/") of the headers of an archive: the root
\* folder of the archive, then any components
HeaderNames ==
    UNION {{<<"root">> \o rest : rest \in [1..n -> Components]} :
              n \in 0..(MaxNameParts - 1)}

TypeDir == "5"
TypeReg == "0"
TypeSymlink == "2"
Typeflags == {TypeDir, TypeReg, TypeSymlink}

\* filepath.Clean of a relative path: empty and "." components go, and a
\* ".." removes the component before it unless there is none or it is ".."
RECURSIVE CleanOnto(_, _)
CleanOnto(done, rest) ==
    IF rest = <<>> THEN done
    ELSE LET c == Head(rest)
         IN  IF c = "" \/ c = "." THEN CleanOnto(done, Tail(rest))
             ELSE IF c = ".." /\ done # <<>> /\ done[Len(done)] # ".."
                  THEN CleanOnto(SubSeq(done, 1, Len(done) - 1), Tail(rest))
                  ELSE CleanOnto(Append(done, c), Tail(rest))

Clean(path) == CleanOnto(<<>>, path)

\* filepath.Join(dir, relativePath)
Join2(dir, relativePath) == Clean(dir \o relativePath)

\* strings.HasPrefix(targetPath, filepath.Clean(destDir) + "/")
HasPrefixAlways(targetPath, dir) == TRUE

HasPrefix(targetPath, dir) ==
    /\ Len(targetPath) > Len(Clean(dir))
    /\ SubSeq(targetPath, 1, Len(Clean(dir))) = Clean(dir)

\* the location the operating system resolves a relative path to, walking
\* from the working directory
RECURSIVE WalkFrom(_, _)
WalkFrom(at, path) ==
    IF path = <<>> THEN at
    ELSE LET c == Head(path)
         IN  IF c = "" \/ c = "." THEN WalkFrom(at, Tail(path))
             ELSE IF c = ".."
                  THEN WalkFrom(IF at = <<>> THEN at
                                ELSE SubSeq(at, 1, Len(at) - 1), Tail(path))
                  ELSE WalkFrom(Append(at, c), Tail(path))

Location(path) == WalkFrom(Cwd, path)

Ancestors(loc) == {SubSeq(loc, 1, n) : n \in 0..Len(loc)}

\* os.MkdirAll(path): the directory and every missing parent
MkdirAllAt(fs, path) == fs \cup Ancestors(Location(path))

\* filepath.Dir(path)
Dir(path) == IF path = <<>> THEN <<>> ELSE SubSeq(path, 1, Len(path) - 1)

NoHeader == [name |-> <<>>, typeflag |-> "", outcome |-> "none"]

ExtractIdle ==
    /\ xtPc = "idle"
    /\ xtFs = {}
    /\ xtCount = 0
    /\ xtLast = NoHeader

\* the destination directory exists when ExtractTarGz is called
ExtractInit ==
    /\ xtPc = "loop"
    /\ xtFs = Ancestors(Location(destDir))
    /\ xtCount = 0
    /\ xtLast = NoHeader

\* tarReader.Next() returns io.EOF
ExtractEof ==
    /\ xtPc = "loop"
    /\ xtPc' = "returned"
    /\ xtLast' = NoHeader
    /\ UNCHANGED <<xtFs, xtCount>>
    /\ UNCHANGED otherThanExtract

\* tarReader.Next() fails
ExtractHeaderFails ==
    /\ xtPc = "loop"
    /\ xtPc' = "failed"
    /\ xtLast' = NoHeader
    /\ UNCHANGED <<xtFs, xtCount>>
    /\ UNCHANGED otherThanExtract

\* what one iteration does for a header: the next position, the file system
\* and the outcome.  failAt is the step of the iteration the operating
\* system fails at: "mkdir", "open", "copy" or "none".
ExtractHeader(fs, name, typeflag, failAt) ==
    LET relativePath == Tail(name)
        targetPath == Join2(destDir, relativePath)
        skip(why) == [pc |-> "loop", fs |-> fs, outcome |-> why]
    IN  IF Len(name) <= 1 THEN skip("skipped")
        ELSE IF relativePath = <<"">> THEN skip("skipped")
        ELSE IF ~HasPrefix(targetPath, destDir)
             THEN [pc |-> "failed", fs |-> fs, outcome |-> "outside"]
        ELSE IF typeflag = TypeDir
             THEN IF failAt = "mkdir"
                  THEN [pc |-> "failed", fs |-> fs, outcome |-> "error"]
                  ELSE [pc |-> "loop", fs |-> MkdirAllAt(fs, targetPath),
                        outcome |-> "written"]
        ELSE IF typeflag = TypeReg
             THEN IF failAt = "mkdir"
                  THEN [pc |-> "failed", fs |-> fs, outcome |-> "error"]
                  ELSE IF failAt = "open"
                  THEN [pc |-> "failed",
                        fs |-> MkdirAllAt(fs, Dir(targetPath)),
                        outcome |-> "error"]
                  ELSE [pc |-> IF failAt = "copy" THEN "failed" ELSE "loop",
                        fs |-> MkdirAllAt(fs, Dir(targetPath))
                               \cup {Location(targetPath)},
                        outcome |-> IF failAt = "copy" THEN "error"
                                    ELSE "written"]
        ELSE skip("ignored")

\* one iteration of the loop, for a header read from the archive
ExtractEntry ==
    /\ xtPc = "loop"
    /\ xtCount < MaxEntries
    /\ \E name \in HeaderNames, typeflag \in Typeflags,
          failAt \in {"none", "mkdir", "open", "copy"} :
          LET res == ExtractHeader(xtFs, name, typeflag, failAt)
          IN  /\ xtPc' = res.pc
              /\ xtFs' = res.fs
              /\ xtLast' = [name |-> name, typeflag |-> typeflag,
                            outcome |-> res.outcome]
    /\ xtCount' = xtCount + 1
    /\ UNCHANGED otherThanExtract

ExtractNext ==
    \/ ExtractEof
    \/ ExtractHeaderFails
    \/ ExtractEntry

\* ------------------------------------------------------------------------
\* PostMessage (internal/slack/slack.go): runWithRetries around
\* findSlackChannel, whose page requests run with retries of their own, then
\* runWithRetries around the post
\* ------------------------------------------------------------------------
\* the nil error, and the error of a runWithRetries that gave up
NoPostErr == [attempts |-> 0, cause |-> NoErr]

GaveUp(m, cause) == [attempts |-> ClampAttempts(m), cause |-> cause]

\* the number of invocations runWithRetries makes of an operation whose
\* first fails invocations fail
RetryCalls(fails, m) == Min(fails + 1, ClampAttempts(m))

PostIdle ==
    /\ pmPc = "idle"
    /\ pmWorkspace = <<>>
    /\ pmName = ""
    /\ pmMaxAttempts = 0
    /\ pmAttempt = 0
    /\ pmCursor = 0
    /\ pmLog = <<>>
    /\ pmPosts = <<>>
    /\ pmErr = NoPostErr

\* PostMessage(channelName, options) on a service built by New or by a test:
\* the first attempt of the outer runWithRetries, nextCursor empty
PostInit ==
    /\ pmPc = "find"
    /\ pmWorkspace \in Workspaces
    /\ pmName \in ChannelNames
    /\ pmMaxAttempts \in 1..ServiceMaxAttempts
    /\ pmAttempt = 1
    /\ pmCursor = 0
    /\ pmLog = <<>>
    /\ pmPosts = <<>>
    /\ pmErr = NoPostErr

\* findSlackChannel has returned the error cause to the outer
\* runWithRetries: the last attempt gives up and PostMessage returns the
\* error, any other attempt is followed by a new call of findSlackChannel
FindReturnsError(cause) ==
    IF IsFinalAttempt(pmAttempt, ClampAttempts(pmMaxAttempts))
    THEN /\ pmErr' = GaveUp(pmMaxAttempts, cause)
         /\ pmPc' = "returned"
         /\ UNCHANGED <<pmAttempt, pmCursor>>
    ELSE /\ pmAttempt' = pmAttempt + 1
         /\ pmCursor' = 0
         /\ UNCHANGED <<pmErr, pmPc>>

\* findSlackChannel has returned the channel: client.PostMessage with
\* retries, and the return of PostMessage
PostToChannel(channel) ==
    /\ \E fails \in 0..pmMaxAttempts :
          /\ pmPosts' = [k \in 1..RetryCalls(fails, pmMaxAttempts) |->
                            [channel |-> channel.ID, ok |-> k > fails]]
          /\ pmErr' = IF fails >= ClampAttempts(pmMaxAttempts)
                      THEN GaveUp(pmMaxAttempts,
                                  "failed to post slack message")
                      ELSE NoPostErr
    /\ pmPc' = "returned"
    /\ UNCHANGED <<pmAttempt, pmCursor>>

\* one iteration of the loop of findSlackChannel, with what follows when
\* the iteration ends the call
PostFindPage ==
    /\ pmPc = "find"
    /\ \E fails \in 0..pmMaxAttempts :
          LET page == GetConversations(pmWorkspace, pmCursor)
              idx == FindFirstUsing(page.Channels, pmName)
          IN  /\ pmLog' = pmLog \o
                     [k \in 1..RetryCalls(fails, pmMaxAttempts) |->
                         [attempt |-> pmAttempt, cursor |-> pmCursor,
                          ok |-> k > fails]]
              /\ IF fails >= ClampAttempts(pmMaxAttempts)
                 THEN /\ FindReturnsError("failed to get slack channel list")
                      /\ UNCHANGED pmPosts
                 ELSE IF idx > 0
                 THEN PostToChannel(page.Channels[idx])
                 ELSE IF page.NextCursor = 0
                 THEN /\ FindReturnsError("channel not found")
                      /\ UNCHANGED pmPosts
                 ELSE /\ pmCursor' = page.NextCursor
                      /\ UNCHANGED <<pmAttempt, pmPosts, pmErr, pmPc>>
    /\ UNCHANGED <<pmWorkspace, pmName, pmMaxAttempts>>
    /\ UNCHANGED otherThanPost

PostNext == PostFindPage

\* ------------------------------------------------------------------------
\* Specifications
\* ------------------------------------------------------------------------
Init ==
    ScanInit /\ RetryIdle /\ IssueIdle /\ PublishIdle /\ SplitIdle
    /\ GeneralIdle /\ FindIdle /\ PatrolIdle /\ ListIdle /\ ActionIdle
    /\ BuildIdle /\ PageIdle /\ SummaryIdle /\ SpecificIdle /\ ReposIdle
    /\ ExtractIdle /\ PostIdle

Next == ScanNext

Spec == Init /\ [][Next]_vars

RetrySpecInit ==
    ScanInit /\ RetryInit /\ IssueIdle /\ PublishIdle /\ SplitIdle
    /\ GeneralIdle /\ FindIdle /\ PatrolIdle /\ ListIdle /\ ActionIdle
    /\ BuildIdle /\ PageIdle /\ SummaryIdle /\ SpecificIdle /\ ReposIdle
    /\ ExtractIdle /\ PostIdle

RetrySpecNext == RetryNext

RetrySpec == RetrySpecInit /\ [][RetrySpecNext]_vars

IssueSpecInit ==
    ScanInit /\ RetryIdle /\ IssueInit /\ PublishIdle /\ SplitIdle
    /\ GeneralIdle /\ FindIdle /\ PatrolIdle /\ ListIdle /\ ActionIdle
    /\ BuildIdle /\ PageIdle /\ SummaryIdle /\ SpecificIdle /\ ReposIdle
    /\ ExtractIdle /\ PostIdle

IssueSpecNext == IssueNext

IssueSpec == IssueSpecInit /\ [][IssueSpecNext]_vars

FreshIssueSpecInit ==
    ScanInit /\ RetryIdle /\ FreshIssueInit /\ PublishIdle /\ SplitIdle
    /\ GeneralIdle /\ FindIdle /\ PatrolIdle /\ ListIdle /\ ActionIdle
    /\ BuildIdle /\ PageIdle /\ SummaryIdle /\ SpecificIdle /\ ReposIdle
    /\ ExtractIdle /\ PostIdle

FreshIssueSpecNext == IssueNext

FreshIssueSpec == FreshIssueSpecInit /\ [][FreshIssueSpecNext]_vars

PublishSpecInit ==
    ScanInit /\ RetryIdle /\ IssueIdle /\ PublishInit /\ SplitIdle
    /\ GeneralIdle /\ FindIdle /\ PatrolIdle /\ ListIdle /\ ActionIdle
    /\ BuildIdle /\ PageIdle /\ SummaryIdle /\ SpecificIdle /\ ReposIdle
    /\ ExtractIdle /\ PostIdle

PublishSpecNext == PublishNext

PublishSpec == PublishSpecInit /\ [][PublishSpecNext]_vars

SplitSpecInit ==
    ScanInit /\ RetryIdle /\ IssueIdle /\ PublishIdle /\ SplitInit
    /\ GeneralIdle /\ FindIdle /\ PatrolIdle /\ ListIdle /\ ActionIdle
    /\ BuildIdle /\ PageIdle /\ SummaryIdle /\ SpecificIdle /\ ReposIdle
    /\ ExtractIdle /\ PostIdle

SplitSpecNext == SplitNext

SplitSpec == SplitSpecInit /\ [][SplitSpecNext]_vars

GeneralSpecInit ==
    ScanInit /\ RetryIdle /\ IssueIdle /\ PublishIdle /\ SplitIdle
    /\ GeneralInit /\ FindIdle /\ PatrolIdle /\ ListIdle /\ ActionIdle
    /\ BuildIdle /\ PageIdle /\ SummaryIdle /\ SpecificIdle /\ ReposIdle
    /\ ExtractIdle /\ PostIdle

GeneralSpecNext == GeneralNext

GeneralSpec == GeneralSpecInit /\ [][GeneralSpecNext]_vars

FindSpecInit ==
    ScanInit /\ RetryIdle /\ IssueIdle /\ PublishIdle /\ SplitIdle
    /\ GeneralIdle /\ FindInit /\ PatrolIdle /\ ListIdle /\ ActionIdle
    /\ BuildIdle /\ PageIdle /\ SummaryIdle /\ SpecificIdle /\ ReposIdle
    /\ ExtractIdle /\ PostIdle

FindSpecNext == FindNext

FindSpec == FindSpecInit /\ [][FindSpecNext]_vars

PatrolSpecInit ==
    ScanInit /\ RetryIdle /\ IssueIdle /\ PublishIdle /\ SplitIdle
    /\ GeneralIdle /\ FindIdle /\ PatrolInit /\ ListInit /\ ActionInit
    /\ BuildIdle /\ PageIdle /\ SummaryIdle /\ SpecificIdle /\ ReposIdle
    /\ ExtractIdle /\ PostIdle

PatrolSpecNext == PatrolNext

PatrolSpec == PatrolSpecInit /\ [][PatrolSpecNext]_vars

BuildSpecInit ==
    ScanInit /\ RetryIdle /\ IssueIdle /\ PublishIdle /\ SplitIdle
    /\ GeneralIdle /\ FindIdle /\ PatrolIdle /\ ListIdle /\ ActionIdle
    /\ BuildInit /\ PageIdle /\ SummaryIdle /\ SpecificIdle /\ ReposIdle
    /\ ExtractIdle /\ PostIdle

BuildSpecNext == BuildNext

BuildSpec == BuildSpecInit /\ [][BuildSpecNext]_vars

PageSpecInit ==
    ScanInit /\ RetryIdle /\ IssueIdle /\ PublishIdle /\ SplitIdle
    /\ GeneralIdle /\ FindIdle /\ PatrolIdle /\ ListIdle /\ ActionIdle
    /\ BuildIdle /\ PageInit /\ SummaryIdle /\ SpecificIdle /\ ReposIdle
    /\ ExtractIdle /\ PostIdle

PageSpecNext == PageNext

PageSpec == PageSpecInit /\ [][PageSpecNext]_vars

SummarySpecInit ==
    ScanInit /\ RetryIdle /\ IssueIdle /\ PublishIdle /\ SplitIdle
    /\ GeneralIdle /\ FindIdle /\ PatrolIdle /\ ListIdle /\ ActionIdle
    /\ BuildIdle /\ PageIdle /\ SummaryInit /\ SpecificIdle /\ ReposIdle
    /\ ExtractIdle /\ PostIdle

SummarySpecNext == SummaryNext

SummarySpec == SummarySpecInit /\ [][SummarySpecNext]_vars

SpecificSpecInit ==
    ScanInit /\ RetryIdle /\ IssueIdle /\ PublishIdle /\ SplitIdle
    /\ GeneralIdle /\ FindIdle /\ PatrolIdle /\ ListIdle /\ ActionIdle
    /\ BuildIdle /\ PageIdle /\ SummaryIdle /\ SpecificInit /\ ReposIdle
    /\ ExtractIdle /\ PostIdle

SpecificSpecNext == SpecificNext

SpecificSpec == SpecificSpecInit /\ [][SpecificSpecNext]_vars

ReposSpecInit ==
    ScanInit /\ RetryIdle /\ IssueIdle /\ PublishIdle /\ SplitIdle
    /\ GeneralIdle /\ FindIdle /\ PatrolIdle /\ ListIdle /\ ActionIdle
    /\ BuildIdle /\ PageIdle /\ SummaryIdle /\ SpecificIdle /\ ReposInit
    /\ ExtractIdle /\ PostIdle

ReposSpecNext == ReposNext

ReposSpec == ReposSpecInit /\ [][ReposSpecNext]_vars

ExtractSpecInit ==
    ScanInit /\ RetryIdle /\ IssueIdle /\ PublishIdle /\ SplitIdle
    /\ GeneralIdle /\ FindIdle /\ PatrolIdle /\ ListIdle /\ ActionIdle
    /\ BuildIdle /\ PageIdle /\ SummaryIdle /\ SpecificIdle /\ ReposIdle
    /\ ExtractInit /\ PostIdle

ExtractSpecNext == ExtractNext

ExtractSpec == ExtractSpecInit /\ [][ExtractSpecNext]_vars

\* scanAndGetReports with a listing of at most MaxFanProjects projects
MaxFanProjects == 2

FanSpecInit == Init

FanSpecNext ==
    \/ MkdirAll
    \/ GetProjectListUpTo(MaxFanProjects)
    \/ Spawn
    \/ Wait
    \/ Collect
    \/ \E t \in Tasks : ScanTask(t)

FanSpec == FanSpecInit /\ [][FanSpecNext]_vars

PostSpecInit ==
    ScanInit /\ RetryIdle /\ IssueIdle /\ PublishIdle /\ SplitIdle
    /\ GeneralIdle /\ FindIdle /\ PatrolIdle /\ ListIdle /\ ActionIdle
    /\ BuildIdle /\ PageIdle /\ SummaryIdle /\ SpecificIdle /\ ReposIdle
    /\ ExtractIdle /\ PostInit

PostSpecNext == PostNext

PostSpec == PostSpecInit /\ [][PostSpecNext]_vars

\* ------------------------------------------------------------------------
\* Properties of scanAndGetReports (checked under Spec)
\* ------------------------------------------------------------------------
Range(s) == {s[k] : k \in 1..Len(s)}

\* the positions of the returned reports that belong to project i
ReportsOf(i) == {k \in 1..Len(reports) : reports[k].Project = projects[i]}

FailedTasks == {i \in 1..Len(projects) : taskErr[i] # NoErr}

\* C1: once the listing step has returned N projects, scanAndGetReports
\* returns exactly N reports, one per project; the report of a project whose
\* fetch or scan failed has Error=true, no vulnerabilities and
\* IsVulnerable=false, the report of any other project is the one built from
\* its scan; warn is non-nil when a project failed, and err is nil.
C1_FailureIsolation ==
    (mainPc = "returned" /\ listed) =>
        /\ Len(reports) = Len(projects)
        /\ \A i \in 1..Len(projects) :
              /\ Cardinality(ReportsOf(i)) = 1
              /\ \A k \in ReportsOf(i) :
                    IF i \in FailedTasks
                    THEN /\ reports[k].Error = TRUE
                         /\ reports[k].Vulnerabilities = <<>>
                         /\ reports[k].IsVulnerable = FALSE
                    ELSE /\ reports[k] = taskReport[i]
                         /\ reports[k].Error = FALSE
        /\ (FailedTasks # {} => warn # NilErr)
        /\ err = NoErr

\* a run of at least two projects in which one failed and another was scanned
C1_Witness ==
    /\ mainPc = "returned"
    /\ listed
    /\ Len(projects) >= 2
    /\ FailedTasks # {}
    /\ \E i \in 1..Len(projects) :
          i \notin FailedTasks /\ Len(taskReport[i].Vulnerabilities) > 0

\* C2: the returned warn contains the error of every project whose scan task
\* failed, under every interleaving of the tasks, and it is nil when neither
\* the listing nor any task failed.
C2_NoWarningLost ==
    (mainPc = "returned" /\ listed) =>
        /\ \A i \in FailedTasks : ProjectErr(projects[i]) \in Range(warn)
        /\ ((~pwarn /\ FailedTasks = {}) => warn = NilErr)

\* C3: the returned reports are sorted by descending number of
\* vulnerabilities, whatever the order in which the tasks completed.
C3_SortedDescending ==
    mainPc = "returned" =>
        \A k \in 1..(Len(reports) - 1) :
            Len(reports[k].Vulnerabilities) >= Len(reports[k + 1].Vulnerabilities)

\* a run whose first project has fewer vulnerabilities than a later one
C3_Witness ==
    /\ mainPc = "returned"
    /\ Len(reports) >= 2
    /\ \E i, j \in 1..Len(projects) :
          /\ i < j
          /\ Len(taskReport[i].Vulnerabilities) < Len(taskReport[j].Vulnerabilities)
    /\ Len(reports[1].Vulnerabilities) > Len(reports[Len(reports)].Vulnerabilities)

\* ------------------------------------------------------------------------
\* Properties of runWithRetries (checked under RetrySpec)
\* ------------------------------------------------------------------------
Calls == Len(opLog)

PositiveRetryAfter(n) == opLog[n].kind = "ratelimit" /\ opLog[n].RetryAfter > 0

\* C4: an operation that fails exactly k times and then succeeds, run with
\* maxAttempts = k+2, returns the value and a nil error after exactly k+1
\* invocations; run with maxAttempts = k >= 1 it is invoked exactly k times
\* and the error wraps the error of the last invocation and states k attempts.
C4_RetryTermination ==
    rPc = "done" =>
        /\ (maxAttemptsArg = opFails + 2 =>
               /\ result = "value"
               /\ rErr = NilRetryErr
               /\ Calls = opFails + 1)
        /\ ((maxAttemptsArg = opFails /\ opFails >= 1) =>
               /\ Calls = opFails
               /\ rErr = RetryErr(opFails, opFails)
               /\ result # "value")

\* retries were exhausted after at least two failures
C4_Witness ==
    /\ rPc = "done"
    /\ maxAttemptsArg = opFails
    /\ opFails >= 2
    /\ Calls = opFails

\* C5: after a non-final attempt that failed with a rate-limit error carrying
\* RetryAfter = d > 0 the wait is exactly d, whatever backoff and the attempt
\* number are, and the next attempt does not start before d has elapsed.
C5_RateLimitOverride ==
    \A n \in 1..Len(sleeps) :
        PositiveRetryAfter(n) =>
            /\ sleeps[n] = opLog[n].RetryAfter
            /\ (n + 1 <= Calls => opLog[n + 1].at >= opLog[n].at + opLog[n].RetryAfter)

\* the second attempt failed with a RetryAfter that differs from the
\* exponential backoff, and a third attempt was made
C5_Witness ==
    /\ Calls >= 3
    /\ Len(sleeps) >= 2
    /\ PositiveRetryAfter(2)
    /\ opLog[2].RetryAfter # backoff * 2
    /\ opLog[2].RetryAfter # backoff

\* C6: after the failure of attempt n < maxAttempts that carries no positive
\* RetryAfter the wait is backoff * 2^(n-1); exactly one wait separates two
\* consecutive attempts, the attempts do not overlap, and there is no wait
\* after a success or after the final failed attempt.
C6_ExponentialBackoff ==
    /\ \A n \in 1..Len(sleeps) :
          /\ (~PositiveRetryAfter(n) => sleeps[n] = backoff * Pow2(n - 1))
          /\ (n + 1 <= Calls => opLog[n + 1].at >= opLog[n].at + sleeps[n])
    /\ (rPc = "loop" => Len(sleeps) = Calls)
    /\ (rPc \in {"sleep", "done"} => Len(sleeps) = Calls - 1)

\* three attempts, the first two failed without a positive RetryAfter
C6_Witness ==
    /\ rPc = "done"
    /\ Calls >= 3
    /\ ~PositiveRetryAfter(1)
    /\ ~PositiveRetryAfter(2)
    /\ sleeps[2] = backoff * 2

\* C7: with maxAttempts <= 0 runWithRetries behaves as with maxAttempts = 1:
\* the operation is invoked exactly once, there is no wait, a success is
\* returned as it is and a failure as an error after that one attempt.
C7_NonPositiveMaxAttempts ==
    (rPc = "done" /\ maxAttemptsArg <= 1) =>
        /\ Calls = 1
        /\ sleeps = <<>>
        /\ (opFails = 0 => result = "value" /\ rErr = NilRetryErr)
        /\ (opFails >= 1 => result # "value" /\ rErr = RetryErr(1, 1))

\* a failing operation run with maxAttempts <= 0
C7_Witness ==
    /\ rPc = "done"
    /\ maxAttemptsArg <= 0
    /\ opFails >= 1
    /\ Calls = 1

\* ------------------------------------------------------------------------
\* Properties of the issue-tracker sink (checked under IssueSpec)
\* ------------------------------------------------------------------------
\* the issues of the project of the last call, before the call
PreIssues == last.pre[<<last.project.GroupOrOwner, last.project.Name>>]

\* the numbers of the issues with the well-known title before the last call
PreVulnNumbers ==
    {n \in 1..Len(PreIssues) : PreIssues[n].Title = VulnerabilityIssueTitle}

\* the number of the tracked issue before the last call: the first listed
PreTracked == CHOOSE n \in PreVulnNumbers : \A m \in PreVulnNumbers : n <= m

ExpectedCreate ==
    [owner |-> last.project.GroupOrOwner, repo |-> last.project.Name,
     number |-> 0, title |-> VulnerabilityIssueTitle, body |-> last.body,
     state |-> NotSet]

ExpectedReopen ==
    [owner |-> last.project.GroupOrOwner, repo |-> last.project.Name,
     number |-> PreTracked, title |-> NotSet, body |-> last.body,
     state |-> "open"]

\* C8, as stated: OpenVulnerabilityIssue for a project without an issue with
\* the well-known title makes exactly one create call, with that title and
\* the report as body, and no update call.
C8_Original ==
    (last.op = "open" /\ PreVulnNumbers = {}) =>
        /\ last.creates = <<ExpectedCreate>>
        /\ last.updates = <<>>

\* C8, amended: OpenVulnerabilityIssue for a project without an issue with
\* the well-known title makes, when every page of the issue listing is
\* returned, exactly one create call, with that title and the report as
\* body, and no update call; when the listing fails it makes no create and no
\* update call and returns an error.
C8_CreateWhenNoIssue ==
    (last.op = "open" /\ PreVulnNumbers = {}) =>
        IF last.lookupErr
        THEN last.creates = <<>> /\ last.updates = <<>> /\ last.err
        ELSE last.creates = <<ExpectedCreate>> /\ last.updates = <<>>

\* the issue was created after a listing of two pages without the title
C8_Witness ==
    /\ last.op = "open"
    /\ PreVulnNumbers = {}
    /\ Len(PreIssues) > PerPage
    /\ ~last.err
    /\ last.issue.Title = VulnerabilityIssueTitle
    /\ last.issue.Number = Len(PreIssues) + 1

\* C9, as stated: OpenVulnerabilityIssue for a project whose tracked issue
\* exists, open or closed, makes exactly one update call carrying the report
\* and state open and no create call; when the issue returned by the update
\* is not open the call returns an error and no issue.
C9_Original ==
    (last.op = "open" /\ PreVulnNumbers # {}) =>
        /\ last.updates = <<ExpectedReopen>>
        /\ last.creates = <<>>
        /\ ((last.edited # NoIssue /\ last.edited.State # "open") =>
               last.err /\ last.issue = NoIssue)

\* C9, amended: OpenVulnerabilityIssue for a project whose tracked issue
\* exists, open or closed, makes, when the lookup of that issue succeeds,
\* exactly one update call carrying the report and state open and no create
\* call, and when the issue returned by the update is not open the call
\* returns an error and no issue; when the lookup fails it makes no update and
\* no create call and returns an error.
C9_UpdateWhenIssueExists ==
    (last.op = "open" /\ PreVulnNumbers # {}) =>
        IF last.lookupErr
        THEN last.creates = <<>> /\ last.updates = <<>> /\ last.err
        ELSE /\ last.updates = <<ExpectedReopen>>
             /\ last.creates = <<>>
             /\ ((last.edited # NoIssue /\ last.edited.State # "open") =>
                    last.err /\ last.issue = NoIssue)

\* the tracked issue was closed and the update did not reopen it
C9_Witness ==
    /\ last.op = "open"
    /\ PreVulnNumbers # {}
    /\ PreIssues[PreTracked].State = "closed"
    /\ last.updates = <<ExpectedReopen>>
    /\ last.edited.State = "closed"
    /\ last.err

\* C10: CloseVulnerabilityIssue for a project whose tracked issue exists and
\* is open makes exactly one update call that sets that issue of that project
\* to state closed, and no create call; afterwards the tracked issue of the
\* project is closed.  (Stated for the calls in which the lookup succeeds and
\* the tracker answers the update with a closed issue.)
C10_CloseOpenIssue ==
    (/\ last.op = "close"
     /\ ~last.lookupErr
     /\ PreVulnNumbers # {}
     /\ PreIssues[PreTracked].State = "open") =>
        /\ Len(last.updates) = 1
        /\ last.updates[1].owner = last.project.GroupOrOwner
        /\ last.updates[1].repo = last.project.Name
        /\ last.updates[1].number = PreTracked
        /\ last.updates[1].state = "closed"
        /\ last.creates = <<>>
        /\ (last.edited.State = "closed" =>
               tracker[<<last.project.GroupOrOwner, last.project.Name>>]
                      [PreTracked].State = "closed")

\* C11, as stated: CloseVulnerabilityIssue for a project that has no tracked
\* issue, or whose tracked issue is already closed, makes no create and no
\* update call, leaves the tracker unchanged and returns no error.
C11_Original ==
    (/\ last.op = "close"
     /\ (PreVulnNumbers = {} \/ PreIssues[PreTracked].State = "closed")) =>
        /\ last.creates = <<>>
        /\ last.updates = <<>>
        /\ tracker = last.pre
        /\ ~last.err

\* C11, amended: CloseVulnerabilityIssue for a project that has no tracked
\* issue, or whose tracked issue is already closed, makes no create and no
\* update call and leaves the tracker unchanged; it returns no error when
\* the lookup of the tracked issue succeeds, and an error when the issue
\* listing fails.
C11_CloseNothingToDo ==
    (/\ last.op = "close"
     /\ (PreVulnNumbers = {} \/ PreIssues[PreTracked].State = "closed")) =>
        /\ last.creates = <<>>
        /\ last.updates = <<>>
        /\ tracker = last.pre
        /\ (last.err <=> last.lookupErr)

\* the tracked issue was found closed on the second page of the listing, with
\* an open issue of another title before it, and the call returned no error
C11_Witness ==
    /\ last.op = "close"
    /\ PreVulnNumbers # {}
    /\ PreTracked > PerPage
    /\ PreIssues[PreTracked].State = "closed"
    /\ ~last.err
    /\ last.updates = <<>>

\* the numbers of the issues with the well-known title in a repository
VulnNumbers(r) == {k \in 1..Len(tracker[r]) : IsVulnIssue(tracker[r][k])}

LastRepo == <<last.project.GroupOrOwner, last.project.Name>>

\* C12: in any sequence of OpenVulnerabilityIssue and CloseVulnerabilityIssue
\* calls that starts from a tracker without a tracked issue, no repository
\* ever holds more than one issue with the well-known title, and every call
\* that returns no error leaves the tracker in the state a repetition of the
\* call leaves it in: after an open call the project has one open issue with
\* the report as body, after a close call the project has no open issue with
\* the title.  (The close case is stated for the calls the tracker answers
\* with a closed issue, or without an update.)
C12_Idempotent ==
    /\ \A r \in Repos : Cardinality(VulnNumbers(r)) <= 1
    /\ (last.op = "open" /\ ~last.err) =>
           /\ Cardinality(VulnNumbers(LastRepo)) = 1
           /\ \A k \in VulnNumbers(LastRepo) :
                  /\ tracker[LastRepo][k].State = "open"
                  /\ tracker[LastRepo][k].Body = last.body
    /\ (/\ last.op = "close"
        /\ ~last.err
        /\ (last.edited = NoIssue \/ last.edited.State = "closed")) =>
           \A k \in VulnNumbers(LastRepo) :
               tracker[LastRepo][k].State # "open"

\* ------------------------------------------------------------------------
\* Properties of PublishAsGitlabIssues (checked under PublishSpec)
\* ------------------------------------------------------------------------
PublishFailed ==
    {i \in 1..Len(pubReports) :
        \E k \in 1..Len(pubOps[i]) : pubOps[i][k].failed}

\* every report got exactly one tracker operation, for its project: open when
\* it is vulnerable, close otherwise; and its goroutine has finished
OneOperationEach ==
    \A i \in 1..Len(pubReports) :
        /\ Len(pubOps[i]) = 1
        /\ pubOps[i][1].project = pubReports[i].Project
        /\ pubOps[i][1].op = (IF pubReports[i].IsVulnerable THEN "open" ELSE "close")
        /\ pubTaskPc[i] = "done"

\* C13: PublishAsGitlabIssues runs one task per report, each performing
\* exactly one tracker operation for its project (open when IsVulnerable,
\* close otherwise); a failure for one project prevents no other operation;
\* the function returns only after every task has finished; and each
\* per-project failure is collected in the warning the function returns.
C13_IssuesPublished ==
    pubPc = "returned" =>
        /\ OneOperationEach
        /\ \A i \in PublishFailed :
              ProjectErr(pubReports[i].Project) \in Range(PublishIssuesResult)

\* ------------------------------------------------------------------------
\* Properties of splitMessage (checked under SplitSpec)
\* ------------------------------------------------------------------------
RECURSIVE Concat(_)
Concat(ss) == IF ss = <<>> THEN <<>> ELSE Head(ss) \o Concat(Tail(ss))

\* C15: for every text s and every maxLen >= 1, the chunks splitMessage
\* returns, concatenated in order, are s: no byte is lost, duplicated or
\* reordered by chunking.
C15_RoundTrip ==
    splitPc = "returned" => Concat(splitChunks) = splitArg

\* a text with a newline was returned in at least three chunks
C15_Witness ==
    /\ splitPc = "returned"
    /\ Len(splitChunks) >= 3
    /\ \E k \in 1..Len(splitArg) : splitArg[k] = NL

\* C16: every chunk is at most maxLen long; each cut is made while more than
\* maxLen bytes remain, immediately after the last newline among the next
\* maxLen bytes of the remaining text, and at exactly maxLen when these hold
\* no newline; every cut removes at least one byte, so the loop ends after at
\* most len(s) cuts.
C16_ChunkBounds ==
    /\ \A k \in 1..Len(splitChunks) : Len(splitChunks[k]) <= splitMaxLen
    /\ \A k \in 1..Len(splitCuts) :
          LET before == splitCuts[k].s
              idx == splitCuts[k].idx
              newlines == {j \in 1..splitMaxLen : before[j] = NL}
          IN  /\ Len(before) > splitMaxLen
              /\ splitChunks[k] = SubSeq(before, 1, idx)
              /\ IF newlines = {}
                 THEN idx = splitMaxLen
                 ELSE idx \in newlines /\ \A j \in newlines : j <= idx
    /\ Len(splitCuts) + Len(splitS) <= Len(splitArg)

\* a text was returned after a cut at a newline before maxLen and a cut at
\* maxLen in a window without a newline
C16_Witness ==
    /\ splitPc = "returned"
    /\ \E k \in 1..Len(splitCuts) :
          splitCuts[k].idx < splitMaxLen /\ splitCuts[k].s[splitCuts[k].idx] = NL
    /\ \E k \in 1..Len(splitCuts) :
          /\ splitCuts[k].idx = splitMaxLen
          /\ \A j \in 1..splitMaxLen : splitCuts[k].s[j] # NL

\* ------------------------------------------------------------------------
\* Properties of PublishAsGeneralSlackMessage (checked under GeneralSpec)
\* ------------------------------------------------------------------------
\* C14: the first message posted is the summary, and it is the only summary;
\* every chunk is posted only after the summary was posted successfully, as
\* a reply whose thread reference is the id returned for the summary, and
\* the chunks are posted one at a time in the order of the text; when the
\* post of the summary fails no chunk is posted and an error is returned.
C14_SummaryThenThread ==
    /\ genPosts # <<>> =>
          /\ genPosts[1].call.option.kind = "summary"
          /\ genPosts[1].call.thread = NotSet
    /\ \A k \in 2..Len(genPosts) :
          /\ genPosts[1].ok
          /\ genPosts[k].call.option.kind = "chunk"
          /\ genPosts[k].call.thread = genPosts[1].ts
          /\ genPosts[k].call.channel = genPosts[1].call.channel
          /\ genPosts[k].call.option.text =
                 splitMessage(genText, SlackMessageLimit)[k - 1]
          /\ genPosts[k - 1].ok
    /\ (genPosts # <<>> /\ ~genPosts[1].ok) =>
          /\ Len(genPosts) = 1
          /\ genPc = "returned"
          /\ genErr # NilErr
    /\ (genPc = "returned" /\ genErr = NilErr) =>
          Len(genPosts) = 1 + Len(splitMessage(genText, SlackMessageLimit))

\* the summary and two chunks were posted, the second chunk after a cut at a
\* newline, and the function returned without an error
C14_Witness ==
    /\ genPc = "returned"
    /\ genErr = NilErr
    /\ Len(genPosts) >= 3
    /\ genPosts[2].call.option.text[Len(genPosts[2].call.option.text)] = NL
    /\ genPosts[3].call.thread = genPosts[1].ts

\* ------------------------------------------------------------------------
\* Properties of findSlackChannel (checked under FindSpec)
\* ------------------------------------------------------------------------
\* the calls before call c, on the same service, that resolved the name
ResolvedBefore(c, name) ==
    {j \in 1..Min(c - 1, Len(findResults)) :
        findResults[j].name = name /\ findResults[j].err = NoErr}

\* C17: once findSlackChannel has resolved a channel name on a service, no
\* later call for the same name on that service calls GetConversations, and
\* every later call for that name returns the same channel id.
C17_ChannelIsCached ==
    /\ \A k \in 1..Len(findLog) :
          ResolvedBefore(findLog[k].find, findLog[k].name) = {}
    /\ \A c \in 1..Len(findResults) :
          \A j \in ResolvedBefore(c, findResults[c].name) :
              /\ findResults[c].err = NoErr
              /\ findResults[c].channel.ID = findResults[j].channel.ID

\* ------------------------------------------------------------------------
\* Properties of Patrol (checked under PatrolSpec)
\* ------------------------------------------------------------------------
SinksCalled == {sinkLog[k].sink : k \in 1..Len(sinkLog)}

SinksFailed == {sinkLog[k].sink : k \in {j \in 1..Len(sinkLog) : sinkLog[j].failed}}

WarnLabels == {patrolWarn[k].label : k \in 1..Len(patrolWarn)}

SinkLabel(sink) ==
    CASE sink = "issues" -> "errors occured when creating issues"
      [] sink = "general" -> "failed to post slack report"
      [] sink = "specific" ->
             "errors occured when posting to project slack channel"
      [] OTHER -> "none"

C19_RootDirFailure ==
    (mainPc = "returned" /\ err # NoErr) =>
        /\ reports = <<>>
        /\ warn = NilErr
        /\ ~listed
        /\ \A t \in Tasks : taskPc[t] = "none"
        /\ sinkLog = <<>>
        /\ patrolPc = "returned" =>
               /\ patrolErr # NilErr
               /\ patrolWarn = NilErr
        /\ patrolPc \in {"scan", "returned"}

\* Patrol returned the fatal error of a root directory that was not created
C19_Witness ==
    /\ patrolPc = "returned"
    /\ err = "could not create temporary directory"
    /\ patrolErr # NilErr
    /\ ~rootDir

\* C20, as stated: when the listing yields zero projects, Patrol returns a
\* non-nil error and produces no reports.
C20_Original ==
    (patrolPc = "returned" /\ listed /\ Len(projects) = 0) =>
        /\ patrolErr # NilErr
        /\ reports = <<>>

\* C20, amended: when the listing yields zero projects, Patrol returns a nil
\* error and, as its warning, the warning of the listing (nil when the
\* listing reported none); it produces no reports and calls no sink.
C20_NoProjects ==
    (patrolPc = "returned" /\ listed /\ Len(projects) = 0) =>
        /\ patrolErr = NilErr
        /\ IF pwarn
           THEN /\ Len(patrolWarn) = 1
                /\ patrolWarn[1].label = "errors occured when scanning projects"
                /\ patrolWarn[1].cause = <<ListErr>>
           ELSE patrolWarn = NilErr
        /\ reports = <<>>
        /\ sinkLog = <<>>

\* Patrol returned after a listing of zero projects that reported a warning
C20_Witness ==
    /\ patrolPc = "returned"
    /\ listed
    /\ Len(projects) = 0
    /\ pwarn
    /\ patrolWarn # NilErr

\* ------------------------------------------------------------------------
\* Properties of PatrolAction and of the listing step (checked under
\* PatrolSpec)
\* ------------------------------------------------------------------------
Returned == actionResult \notin {"none", "pending"}

\* C21, as stated: a patrol started with no scan targets and no report
\* targets returns nil from PatrolAction, and no sink is called.
C21_Original ==
    (Returned /\ Len(locations) = 0) =>
        /\ actionResult = "nil"
        /\ sinkLog = <<>>

\* C21, amended: a patrol started with no scan targets and no report targets
\* calls no sink; PatrolAction returns nil when the root working directory
\* could be created and the wrapped fatal error when it could not.
C21_EmptyRun ==
    (Returned /\ Len(locations) = 0) =>
        /\ actionResult = (IF err = NoErr THEN "nil" ELSE "failed to scan")
        /\ sinkLog = <<>>
        /\ reports = <<>>

\* PatrolAction returned nil after a patrol with no scan target whose listing
\* step ran
C21_Witness ==
    /\ actionResult = "nil"
    /\ Len(locations) = 0
    /\ listed
    /\ patrolPc = "returned"

\* C22: PatrolAction returns nil exactly when Patrol returned neither a
\* warning nor an error, the exit error of status 1 exactly when Patrol
\* returned a warning and no error, and the wrapped error exactly when Patrol
\* returned an error.
C22_ThreeOutcomes ==
    Returned =>
        /\ actionResult \in {"nil", "exit 1", "failed to scan"}
        /\ actionResult = "nil" <=>
               (patrolWarn = NilErr /\ patrolErr = NilErr)
        /\ actionResult = "exit 1" <=>
               (patrolWarn # NilErr /\ patrolErr = NilErr)
        /\ actionResult = "failed to scan" <=> patrolErr # NilErr

\* PatrolAction returned the exit error of status 1 for a warning of Patrol
C22_Witness ==
    /\ actionResult = "exit 1"
    /\ patrolWarn # NilErr
    /\ patrolErr = NilErr

\* C30: GetProjectList returns the projects of every path whose listing
\* succeeded, with a non-nil warning exactly when the listing of some path
\* failed; scanAndGetReports keeps the listing failure in its warning, scans
\* every listed project and returns no fatal error.
C30_PartialListing ==
    [][/\ (mainPc = "listing" /\ mainPc' = "spawn") =>
              /\ Len(projects') = SumSeq(reposChan)
              /\ pwarn' <=> (groupErr # 0)
              /\ pwarn' => ListErr \in Range(warn')
       /\ (mainPc' = "returned" /\ listed' /\ pwarn') =>
              /\ err' = NoErr
              /\ ListErr \in Range(warn')
              /\ Len(reports') = Len(projects')
              /\ \A i \in 1..Len(projects') :
                    \E k \in 1..Len(reports') :
                        reports'[k].Project = projects'[i]]_vars

\* scanAndGetReports returned the reports of the projects of a listing that
\* failed for a path and succeeded for another
C30_Witness ==
    /\ mainPc = "returned"
    /\ pwarn
    /\ Len(gitlabLocs(locations)) >= 2
    /\ Len(projects) >= 1
    /\ Len(reports) = Len(projects)
    /\ err = NoErr

\* ------------------------------------------------------------------------
\* Properties of the scan directories (checked under Spec)
\* ------------------------------------------------------------------------
\* the tasks that are between the creation of their directory and the return
\* of scanProject
Working == {t \in 1..Len(projects) : taskPc[t] \in {"fetching", "scanning"}}

\* C23: every scan task that created its directory owns it alone, also when
\* the projects have the same name; the directory exists while scanProject
\* works in it and has been removed when scanProject has returned, after a
\* fetch failure, a scanner failure or a success.
C23_OwnDirectory ==
    /\ \A t \in Working : DirName(t) \in taskDirs
    /\ \A t, u \in Working : t # u => DirName(t) # DirName(u)
    /\ Cardinality(taskDirs) = Cardinality(Working)
    /\ \A t \in 1..Len(projects) :
          taskPc[t] \notin {"fetching", "scanning"} =>
              DirName(t) \notin taskDirs

\* a task ended by a fetch failure, one by a scanner failure and one by a
\* success, all of projects of the same name, and no directory is left
C23_Witness ==
    /\ mainPc = "returned"
    /\ \E t, u, v \in 1..Len(projects) :
          /\ taskErr[t] = "clone"
          /\ taskErr[u] = "scan"
          /\ taskErr[v] = NoErr
          /\ Name(projects[t]) = Name(projects[u])
    /\ taskDirs = {}

\* ------------------------------------------------------------------------
\* Properties of the report of one project (checked under BuildSpec)
\* ------------------------------------------------------------------------
\* the kind of the highest threshold that the score meets
HighestMet(score) ==
    CHOOSE k \in Kinds :
        /\ score >= SeverityScoreThresholds[k]
        /\ \A j \in Kinds :
              score >= SeverityScoreThresholds[j] =>
                  SeverityScoreThresholds[j] <= SeverityScoreThresholds[k]

Matches(v) == v.Id \in {bldConfig[k].Code : k \in DOMAIN bldConfig}

Vulns == {bldReport.Vulnerabilities[i] : i \in DOMAIN bldReport.Vulnerabilities}

C25_MarksExactly ==
    [][(bldPc = "generated" /\ bldPc' = "merged") =>
          LET old == bldReport.Vulnerabilities
              new == bldReport'.Vulnerabilities
          IN  /\ Len(new) = Len(old)
              /\ \A i \in DOMAIN old :
                    /\ new[i].Id = old[i].Id
                    /\ new[i].Severity = old[i].Severity
                    /\ IF Matches(old[i])
                       THEN /\ new[i].SeverityScoreKind = Acknowledged
                            /\ \E k \in DOMAIN bldConfig :
                                  /\ bldConfig[k].Code = old[i].Id
                                  /\ bldConfig[k].Reason = new[i].AckReason
                       ELSE /\ new[i].SeverityScoreKind = old[i].SeverityScoreKind
                            /\ new[i].AckReason = old[i].AckReason]_vars

\* a merged report of two findings of which exactly the second is
\* acknowledged, with a reason that is not empty
C25_Witness ==
    /\ bldPc = "merged"
    /\ Len(bldReport.Vulnerabilities) = 2
    /\ ~Matches(bldReport.Vulnerabilities[1])
    /\ bldReport.Vulnerabilities[1].SeverityScoreKind # Acknowledged
    /\ Matches(bldReport.Vulnerabilities[2])
    /\ bldReport.Vulnerabilities[2].SeverityScoreKind = Acknowledged
    /\ bldReport.Vulnerabilities[2].AckReason = "accepted"

\* C26: after the merge of the acknowledgements the report of a scan, whose
\* scores are not negative, has IsVulnerable true exactly when a
\* vulnerability has a kind other than Acknowledged.
C26_IsVulnerable ==
    (bldPc = "merged" /\ \A v \in Vulns : v.Severity >= 0) =>
        (bldReport.IsVulnerable <=>
            \E v \in Vulns : v.SeverityScoreKind # Acknowledged)

\* ------------------------------------------------------------------------
\* Properties of getGithubPaginatedResults (checked under PageSpec)
\* ------------------------------------------------------------------------
\* the items of the first k calls, in the order of the calls
RECURSIVE ItemsUpTo(_)
ItemsUpTo(k) == IF k = 0 THEN <<>> ELSE ItemsUpTo(k - 1) \o pgLog[k].items

\* C27: the page function is called first for page 1 and then for the
\* NextPage of the response before; no call follows a failed call or a
\* response whose NextPage is 0; the result is the concatenation of the items
\* of all pages in the order of the calls, and after a failed call it is the
\* error with no items.
C27_Pagination ==
    /\ pgLog # <<>> => pgLog[1].page = 1
    /\ \A k \in 2..Len(pgLog) :
          /\ pgLog[k].page = pgLog[k - 1].NextPage
          /\ ~pgLog[k - 1].failed
          /\ pgLog[k - 1].NextPage # 0
    /\ pgPc = "returned" =>
          LET final == pgLog[Len(pgLog)]
          IN  IF final.failed
              THEN pgErr /\ pgResults = <<>>
              ELSE /\ ~pgErr
                   /\ final.NextPage = 0
                   /\ pgResults = ItemsUpTo(Len(pgLog))
    /\ pgPc = "loop" => ~pgErr /\ pgResults = ItemsUpTo(Len(pgLog))

\* a listing whose third call failed after two pages with items, the second
\* page not being page 2
C27_Witness ==
    /\ pgPc = "returned"
    /\ Len(pgLog) = 3
    /\ pgLog[1].items # <<>>
    /\ pgLog[2].items # <<>>
    /\ pgLog[2].page = 3
    /\ pgLog[3].failed
    /\ pgErr
    /\ pgResults = <<>>

\* ------------------------------------------------------------------------
\* Properties of the summary message (checked under SummarySpec)
\* ------------------------------------------------------------------------
RECURSIVE SumOver(_, _)
SumOver(f, S) ==
    IF S = {} THEN 0
    ELSE LET x == CHOOSE x \in S : TRUE IN f[x] + SumOver(f, S \ {x})

TotalVulnerabilities ==
    SumOver([i \in DOMAIN sumReports |-> Len(sumReports[i].Vulnerabilities)],
            DOMAIN sumReports)

\* C28: the counts the summary shows per severity kind sum to the number of
\* vulnerabilities of all reports of the run.
C28_CountsSumToTotal ==
    sumPc = "formatted" => SumOver(sumCounts, Kinds) = TotalVulnerabilities

\* ------------------------------------------------------------------------
\* Properties of PublishAsSpecificChannelSlackMessage (checked under
\* SpecificSpec)
\* ------------------------------------------------------------------------
PostsOf(i) == {k \in DOMAIN spcPosts : spcPosts[k].report = i}

FailedPosts == {k \in DOMAIN spcPosts : ~spcPosts[k].ok}

\* C29: when PublishAsSpecificChannelSlackMessage has returned, every report
\* whose configuration names a channel was posted exactly once, to that
\* channel, no other report was posted, every goroutine has finished, and
\* the returned warning has an entry for every failed post.
C29_SpecificChannel ==
    spcPc = "returned" =>
        /\ \A i \in DOMAIN spcReports :
              IF spcReports[i].ReportToSlackChannel # ""
              THEN /\ Cardinality(PostsOf(i)) = 1
                   /\ \A k \in PostsOf(i) :
                         spcPosts[k].channel =
                             spcReports[i].ReportToSlackChannel
                   /\ spcTaskPc[i] = "done"
              ELSE PostsOf(i) = {}
        /\ spcWg = 0
        /\ Len(spcWarn) = Cardinality(FailedPosts)
        /\ \A k \in FailedPosts :
              PostErr(spcPosts[k].channel) \in Range(spcWarn)

\* C31: the list GetProjectList returns holds every project at most once
\* (no two entries with the same project ID), also when the requested
\* paths overlap.
C31_UniqueProjects ==
    rpPc = "returned" =>
        \A i, j \in 1..Len(rpProjects) :
            rpProjects[i].ID = rpProjects[j].ID => i = j

\* the locations under the destination directory, the directory included
UnderDestDir(loc) ==
    /\ Len(loc) >= Len(Location(destDir))
    /\ SubSeq(loc, 1, Len(Location(destDir))) = Location(destDir)

\* the header read last names a location outside the destination directory
\* once its root folder is dropped
ResolvesOutside(header) ==
    /\ Len(header.name) > 1
    /\ Tail(header.name) # <<"">>
    /\ ~UnderDestDir(WalkFrom(Location(destDir), Tail(header.name)))

\* C32: ExtractTarGz creates no file and no directory outside destDir, and
\* a header whose path resolves outside destDir once the root folder of the
\* archive is dropped ends the extraction with an error and with nothing
\* created for it.
C32_StaysInside ==
    [][/\ \A loc \in xtFs' \ xtFs : UnderDestDir(loc)
       /\ (xtCount' # xtCount /\ ResolvesOutside(xtLast')) =>
              /\ xtPc' = "failed"
              /\ xtLast'.outcome = "outside"
              /\ xtFs' = xtFs]_vars

\* a header that points at the directory of another project was refused
\* after an earlier header had been written
C32_Witness ==
    /\ xtPc = "failed"
    /\ xtCount = 2
    /\ xtLast.name = <<"root", "..", "sheriff-2">>
    /\ xtLast.outcome = "outside"
    /\ Location(destDir \o <<"a">>) \in xtFs

\* ------------------------------------------------------------------------
\* Properties of the fan-out and fan-in of the scan (checked under FanSpec)
\* ------------------------------------------------------------------------
DoneTasks == {t \in 1..Len(projects) : taskPc[t] = "done"}

\* the steps task t still has to take, at most
TaskSteps(t) ==
    CASE taskPc[t] = "none" -> 7
      [] taskPc[t] = "created" -> 6
      [] taskPc[t] = "fetching" -> 5
      [] taskPc[t] = "scanning" -> 4
      [] taskPc[t] = "failed" -> 3
      [] taskPc[t] = "joining" -> 2
      [] taskPc[t] = "joined" -> 1
      [] taskPc[t] = "built" -> 1
      [] taskPc[t] = "done" -> 0

MainSteps ==
    CASE mainPc = "start" -> 4
      [] mainPc = "list" -> 3
      [] mainPc = "spawn" -> 2
      [] mainPc = "collect" -> 1
      [] mainPc \in {"returned", "listing"} -> 0

RECURSIVE SumSteps(_)
SumSteps(n) == IF n = 0 THEN 0 ELSE TaskSteps(n) + SumSteps(n - 1)

\* the steps the run still has to take, at most
StepsLeft ==
    IF mainPc \in {"start", "list"} THEN MainSteps + 7 * MaxProjects
    ELSE MainSteps + SumSteps(Len(projects))

\* C33: the fan-out and fan-in of the scan neither deadlocks nor runs for
\* ever.  While scanAndGetReports has not returned some step can be taken,
\* and every step brings the return nearer; a task that has its report
\* finds room in the channel; the channel holds one report per finished
\* task; wg.Wait() returns, and the channel is closed, only when every task
\* has sent; and the collection reads exactly N reports.
C33_FanOutFanIn ==
    /\ [](/\ mainPc # "returned" => ENABLED FanSpecNext
          /\ \A t \in 1..Len(projects) :
                taskPc[t] \in {"built", "joined"} =>
                    Len(reportsChan) < Len(projects)
          /\ mainPc = "spawn" => Len(reportsChan) = Cardinality(DoneTasks)
          /\ mainPc = "spawn" => wg = Cardinality({t \in 1..Len(projects) :
                                      taskPc[t] \notin {"none", "done"}})
          /\ mainPc = "collect" =>
                /\ DoneTasks = 1..Len(projects)
                /\ Len(reportsChan) = Len(projects)
          /\ (mainPc = "returned" /\ listed) =>
                /\ DoneTasks = 1..Len(projects)
                /\ Len(reports) = Len(projects)
                /\ reportsChan = <<>>)
    /\ [][StepsLeft' < StepsLeft /\ StepsLeft' >= 0]_vars

\* a run of as many projects as a run may have has returned, with a failed
\* task among them
C33_Witness ==
    /\ mainPc = "returned"
    /\ Len(projects) = MaxFanProjects
    /\ Len(reports) = MaxFanProjects
    /\ FailedTasks # {}
    /\ wg = 0

\* the moves of one scan task: the position before and the position after
TaskMoves ==
    {<<"none", "created">>,
     <<"created", "fetching">>, <<"created", "failed">>,
     <<"fetching", "scanning">>, <<"fetching", "failed">>,
     <<"scanning", "built">>, <<"scanning", "failed">>,
     <<"failed", "joining">>, <<"joining", "joined">>,
     <<"joined", "done">>, <<"built", "done">>}

AfterFailure == {"failed", "joining", "joined", "done"}

\* C34: a scan task goes from created to fetching, scanning and built, or to
\* failed at the first step that fails, and never back: the fetch and the
\* scanner run at most once, the scanner runs only after a fetch that
\* succeeded, the report is built only after a scan that succeeded, and a
\* task whose fetch failed never reaches the scanner.
C34_TaskLifecycle ==
    /\ [][\A t \in Tasks :
            /\ taskPc'[t] # taskPc[t] =>
                  <<taskPc[t], taskPc'[t]>> \in TaskMoves
            /\ (taskPc[t] = "fetching" /\ taskPc'[t] = "scanning") =>
                  taskErr'[t] = NoErr
            /\ (taskPc[t] = "scanning" /\ taskPc'[t] = "built") =>
                  /\ taskErr'[t] = NoErr
                  /\ taskReport'[t] # NoReport
            /\ taskErr[t] # NoErr =>
                  /\ taskErr'[t] = taskErr[t]
                  /\ taskPc'[t] \in AfterFailure]_vars
    /\ [](\A t \in Tasks :
            /\ taskErr[t] # NoErr => taskPc[t] \in AfterFailure
            /\ taskPc[t] \in {"failed", "joining", "joined"} =>
                  taskErr[t] # NoErr
            /\ taskReport[t] # NoReport =>
                  /\ taskErr[t] = NoErr
                  /\ taskPc[t] \in {"built", "done"}
            /\ taskErr[t] \in {"mkdir", "clone"} =>
                  taskReport[t] = NoReport)

\* one task stopped at a failed fetch and another went through to its report
C34_Witness ==
    \E t, u \in 1..Len(projects) :
        /\ taskErr[t] = "clone"
        /\ taskPc[t] = "done"
        /\ taskReport[t] = NoReport
        /\ taskErr[u] = NoErr
        /\ taskPc[u] = "done"
        /\ taskReport[u] # NoReport

\* the scan tasks that were started and have not sent their report
RunningTasks ==
    {t \in 1..Len(projects) : taskPc[t] \notin {"none", "done"}}

\* C35: the root working directory exists while a scan task runs or holds a
\* directory of its own; it is removed only when every task has finished and
\* no task directory is left; and it does not exist when scanAndGetReports
\* has returned, whether or not it had been created.
C35_RootDirLifetime ==
    /\ [](/\ RunningTasks # {} => rootDir
          /\ taskDirs # {} => rootDir
          /\ mainPc \in {"list", "spawn", "collect"} => rootDir
          /\ mainPc = "returned" => ~rootDir)
    /\ [][(rootDir /\ ~rootDir') =>
              /\ \A t \in 1..Len(projects) : taskPc[t] = "done"
              /\ taskDirs = {}
              /\ mainPc' = "returned"]_vars

\* the run has returned after its tasks worked in directories of their own,
\* and neither the root directory nor a task directory is left
C35_Witness ==
    /\ mainPc = "returned"
    /\ listed
    /\ Len(projects) = MaxFanProjects
    /\ \A t \in 1..Len(projects) : taskErr[t] # "mkdir"
    /\ ~rootDir
    /\ taskDirs = {}

\* the place of a sink in the order of Patrol
SinkRank(sink) ==
    CASE sink = "issues" -> 1
      [] sink = "general" -> 2
      [] sink = "specific" -> 3
      [] sink = "console" -> 4

\* C36: within one Patrol the sinks are called in the order issue tracker,
\* general chat summary, per-project chat messages, console, each after the
\* one before it has returned; the console sink is the last call of a run
\* with reports; and a run whose report list is empty calls no sink, the
\* console included.
C36_SinkOrder ==
    /\ \A i, j \in 1..Len(sinkLog) :
          i < j => SinkRank(sinkLog[i].sink) < SinkRank(sinkLog[j].sink)
    /\ (patrolPc = "returned" /\ Len(reports) = 0) => sinkLog = <<>>
    /\ (patrolPc = "returned" /\ Len(reports) > 0) =>
          sinkLog[Len(sinkLog)].sink = "console"
    /\ "console" \in SinksCalled => patrolPc = "returned"
    /\ patrolPc \in {"scan", "issues"} => sinkLog = <<>>

\* a patrol with reports called the four sinks, and none of them failed
C36_Witness ==
    /\ patrolPc = "returned"
    /\ Len(reports) > 0
    /\ [i \in 1..Len(sinkLog) |-> sinkLog[i].sink] =
           <<"issues", "general", "specific", "console">>
    /\ SinksFailed = {}

\* C37: the issue sink handles the report of a failed scan (Error=true) as
\* not vulnerable, that is with CloseVulnerabilityIssue for its project, and
\* that call closes the open vulnerability issue of the project.  (Stated
\* for the calls in which the lookup succeeds and the tracker answers the
\* update with a closed issue.)
C37_FailedScanCloses ==
    (/\ last.op = IssueOp(FailedReport(last.project))
     /\ ~last.lookupErr
     /\ PreVulnNumbers # {}
     /\ PreIssues[PreTracked].State = "open"
     /\ last.edited # NoIssue
     /\ last.edited.State = "closed") =>
        tracker[<<last.project.GroupOrOwner, last.project.Name>>]
               [PreTracked].State = "closed"

\* the create and update calls of the last operation
TrackerCalls == Range(last.creates) \cup Range(last.updates)

\* C38: every create and update call that OpenVulnerabilityIssue or
\* CloseVulnerabilityIssue makes for a project addresses the repository the
\* issues of the project were listed from, owner project.GroupOrOwner and
\* repo project.Name.
C38_SameRepository ==
    last.op \in {"open", "close"} =>
        \A call \in TrackerCalls :
            /\ call.owner = last.project.GroupOrOwner
            /\ call.repo = last.project.Name

\* ------------------------------------------------------------------------
\* Properties of the paged search (checked under FindSpec)
\* ------------------------------------------------------------------------
\* the positions in findLog of the GetConversations calls of call c
CallsOf(c) == {k \in 1..Len(findLog) : findLog[k].find = c}

\* the positions of the channels of the workspace with that name
NamedAt(name) ==
    {k \in 1..Len(conversations) : conversations[k].Name = name}

\* the page a channel of the workspace is listed on, 0 for the first
PageOf(k) == (k - 1) \div ChannelsPerPage

\* the last page of the workspace
LastPage ==
    IF conversations = <<>> THEN 0
    ELSE (Len(conversations) - 1) \div ChannelsPerPage

\* C40: findSlackChannel asks for the pages in the order of their cursors,
\* the empty cursor first, and a page again only after a failed request; it
\* returns the first channel of the workspace with the name, and asks for no
\* page after the one that lists it; it returns 'channel not found' only
\* when it has read the last page and no page had a match; and a page whose
\* requests all failed ends the search with an error.
C40_PagedSearch ==
    \A c \in 1..Len(findResults) :
        LET calls == CallsOf(c)
            final == CHOOSE k \in calls : \A j \in calls : j <= k
            res == findResults[c]
        IN  /\ calls # {}
            /\ \A k \in calls :
                  IF k - 1 \in calls
                  THEN findLog[k].cursor =
                           IF findLog[k - 1].ok THEN findLog[k - 1].cursor + 1
                           ELSE findLog[k - 1].cursor
                  ELSE findLog[k].cursor = 0
            /\ \A k \in calls : findLog[k].name = res.name
            /\ res.err = NoErr =>
                  /\ NamedAt(res.name) # {}
                  /\ \A k \in NamedAt(res.name) :
                        (\A j \in NamedAt(res.name) : k <= j) =>
                            /\ res.channel = conversations[k]
                            /\ findLog[final].cursor = PageOf(k)
                  /\ findLog[final].ok
            /\ res.err = "channel not found" =>
                  /\ NamedAt(res.name) = {}
                  /\ findLog[final].ok
                  /\ findLog[final].cursor = LastPage
            /\ res.err = "failed to get slack channel list" =>
                  /\ Cardinality({k \in calls :
                         /\ ~findLog[k].ok
                         /\ findLog[k].cursor = findLog[final].cursor})
                       = ServiceMaxAttempts
                  /\ ~findLog[final].ok
                  /\ \A k \in NamedAt(res.name) :
                        PageOf(k) >= findLog[final].cursor
            /\ res.err \in {NoErr, "channel not found",
                            "failed to get slack channel list"}

\* a search found its channel on the second page, behind a channel of
\* another name, after a request that failed and was repeated
C40_Witness ==
    \E c \in 1..Len(findResults) :
        /\ findResults[c].err = NoErr
        /\ \A k \in NamedAt(findResults[c].name) : PageOf(k) = 1
        /\ \E k \in CallsOf(c) : ~findLog[k].ok

\* ------------------------------------------------------------------------
\* Properties of PostMessage (checked under PostSpec)
\* ------------------------------------------------------------------------
\* the attempts of the outer runWithRetries that called GetConversations
AttemptsMade == {pmLog[k].attempt : k \in 1..Len(pmLog)}

FindErrors == {"failed to get slack channel list", "channel not found"}

\* C39: the retries of the chat delivery are nested.  When PostMessage has
\* returned and every GetConversations call failed, there were exactly
\* maxAttempts * maxAttempts such calls, no message was posted and an error
\* is returned; a search that ends with 'channel not found' is repeated like
\* one that ends with a listing error, until maxAttempts searches were made;
\* and every search starts at the first page.
C39_NestedRetries ==
    /\ \A k \in 1..Len(pmLog) :
          (k = 1 \/ pmLog[k - 1].attempt # pmLog[k].attempt) =>
              pmLog[k].cursor = 0
    /\ pmPc = "returned" =>
          /\ (\A k \in 1..Len(pmLog) : ~pmLog[k].ok) =>
                /\ Len(pmLog) = pmMaxAttempts * pmMaxAttempts
                /\ pmPosts = <<>>
                /\ pmErr # NoPostErr
          /\ pmErr.cause \in FindErrors =>
                /\ AttemptsMade = 1..pmMaxAttempts
                /\ pmPosts = <<>>
          /\ (\A k \in 1..Len(pmWorkspace) : pmWorkspace[k].Name # pmName) =>
                /\ AttemptsMade = 1..pmMaxAttempts
                /\ pmErr.cause \in FindErrors
                /\ pmPosts = <<>>

\* a PostMessage with more than one attempt has returned after every
\* GetConversations call failed
C39_Witness ==
    /\ pmPc = "returned"
    /\ pmMaxAttempts = ServiceMaxAttempts
    /\ pmMaxAttempts > 1
    /\ \A k \in 1..Len(pmLog) : ~pmLog[k].ok
    /\ Len(pmLog) = pmMaxAttempts * pmMaxAttempts

====
